---- MODULE Spec2Model ----
(***************************************************************************)
(* A model of the BibleOrgSys loaders:                                     *)
(*   - USFMFile.read (src/USFMFile.py), the marker-line reader;            *)
(*   - the chapter / verse milestone handling of the OSIS loader           *)
(*     (src/OSISXMLBible.py, validateAndExtractBookDiv and its helpers),   *)
(*     with InternalBible.saveBook (src/InternalBible.py);                 *)
(*   - the registry of InternalBible (src/InternalBible.py): saveBook,     *)
(*     guessXRefBBB, getErrors, getVersification, getAddedUnits,           *)
(*     discover, reloadBook and loadBookIfNecessary, with                  *)
(*     USXXMLBible.loadBook (src/USXXMLBible.py);                          *)
(*   - validateHighlight and the left-over branches of the OSIS loader;    *)
(*   - loadBook and loadParagraph of the USFX loader                       *)
(*     (src/USFXXMLBible.py).                                              *)
(*                                                                         *)
(* Text is modelled as sequences of one-character strings, so that         *)
(* slicing, find() and concatenation are computed as the code computes     *)
(* them.                                                                   *)
(***************************************************************************)
EXTENDS Integers, Sequences, FiniteSets, TLC

VARIABLES
    \* ---- USFMFile.read ----
    fileLines,      \* the file: a sequence of lines (without their newline)
    finalNewline,   \* whether the last line of the file ends with a newline
    encodingUtf8,   \* encoding.lower() == 'utf-8'
    ignoreSFMs,     \* the caller's ignore-set (a set of markers)
    lineCount,      \* local lineCount: lines delivered by the file iterator
    lastLine,       \* local lastLine
    marker,         \* local marker: the marker of the last parsed SFM line
    result,         \* local result: sequence of [marker, text]
    lines,          \* self.lines
    readPc,         \* "reading" | "done" | "raised"
    \* ---- OSISXMLBible: validateAndExtractBookDiv ----
    bookObjects,    \* the BibleBook objects created so far: [BBB, rawLines]
    thisBook,       \* self.thisBook: index into bookObjects (0: not set)
    books,          \* self.books: book code -> index into bookObjects (0: absent)
    savedLines,     \* history: per object, its lines when saveBook received it
    BBB,            \* local BBB of validateAndExtractBookDiv ("" if none)
    mainDivType,    \* local mainDivType
    chapterMilestone, \* local chapterMilestone (the chapter cursor)
    verseMilestone, \* local verseMilestone (the verse cursor)
    haveEIDs,       \* local haveEIDs
    loadErrors,     \* loadErrors: sequence of diagnostics
    element,        \* the element processed last (the input of the last step)
    elementCount,   \* number of elements processed so far
    path,           \* the open containers below the book div ("div", "p")
    newBBB,         \* local newBBB ("unbound" until first assigned)
    osisPc,         \* "betweenDivs" | "inBookDiv" | "raised"
    \* ---- InternalBible: the registry of books and its name lookups ----
    bookOrder,      \* the keys of self.books, in insertion order
    BBBToNameDict,  \* self.BBBToNameDict: book code -> name
    bookNameDict,   \* self.bookNameDict: lower-case name -> book code
    combinedBookNameDict, \* self.combinedBookNameDict
    bookAbbrevDict, \* self.bookAbbrevDict: lower-case input -> book code
    reverseDict,    \* self.reverseDict: book code -> input that resolved to it
    guesses,        \* self.guesses: the entries of the guesses log, in order
    lastCall,       \* the last call of a registry method, with what it returned
    firstResolution, \* history: lower-case input -> the first code it resolved to
    callCount,      \* history: the number of calls of registry methods so far
    triedLoadingBook, \* self.triedLoadingBook: the codes loadBook was tried for
    bookFacts,      \* per book object: what its own methods report
    discoveryResults, \* self.discoveryResults (absent until discover())
    lastReport,     \* the last call of a reporting method, with what it returned
    loadBookCalls,  \* history: book code -> calls of loadBook by loadBookIfNecessary
    \* ---- USFXXMLBible: loadBook and loadParagraph ----
    usfxC,          \* local C of loadBook (the chapter cursor)
    usfxV,          \* local V of loadBook and loadParagraph (the verse cursor)
    usfxLogged,     \* history: the number of records handed to logging
    errorDictionary, \* self.errorDictionary
    usfxPc          \* "notLoading" | "inBook" | "inParagraph"

usfmVars == << fileLines, finalNewline, encodingUtf8, ignoreSFMs, lineCount,
               lastLine, marker, result, lines, readPc >>

osisVars == << bookObjects, thisBook, books, savedLines, BBB, mainDivType,
               chapterMilestone, verseMilestone, haveEIDs, loadErrors,
               element, elementCount, path, newBBB, osisPc >>

nameVars == << bookOrder, BBBToNameDict, bookNameDict, combinedBookNameDict >>

guessVars == << bookAbbrevDict, reverseDict, guesses, lastCall, firstResolution >>

reportVars == << triedLoadingBook, bookFacts, discoveryResults, lastReport >>

registryVars == << callCount, nameVars, guessVars, reportVars >>

lazyVars == << loadBookCalls >>

usfxVars == << usfxC, usfxV, usfxLogged, errorDictionary, usfxPc >>

vars == << usfmVars, osisVars, registryVars, lazyVars, usfxVars >>

(***************************************************************************)
(* Characters and strings                                                  *)
(***************************************************************************)
BS == "\\"          \* the backslash
SP == " "
AST == "*"
HASH == "#"
BOM == "BOM"        \* chr(65279)
BAD == "BAD"        \* stands for a byte sequence that cannot be decoded

NoMarker == << "None" >>   \* Python's None / a local that is not yet bound

Range(s) == { s[i] : i \in 1..Len(s) }

\* Python's s.find(c): the 0-based index of the first c, or -1
Find(s, c) ==
    IF \E i \in 1..Len(s) : s[i] = c
    THEN (CHOOSE i \in 1..Len(s) : s[i] = c /\ \A j \in 1..(i-1) : s[j] # c) - 1
    ELSE -1

\* Python's s[:n] and s[n:] for 0 <= n
Upto(s, n) == SubSeq(s, 1, IF n < Len(s) THEN n ELSE Len(s))
From(s, n) == SubSeq(s, n + 1, Len(s))

Min3(a, b, c) == IF a <= b /\ a <= c THEN a ELSE IF b <= c THEN b ELSE c

DUMMY_VALUE == 999999

\* the book codes of the model, and the element slot before any element
BookCodes == { "GEN", "EXO", "JDG", "JUD" }

\* a Python dict is a function on its keys
EmptyDict == [k \in {} |-> ""]
Put(d, k, v) == [x \in (DOMAIN d) \cup { k } |-> IF x = k THEN v ELSE d[x]]
NoCall == [op |-> "none"]
NoDiscoveryResults == [present |-> FALSE, order |-> << >>, of |-> EmptyDict]
NoElement == [tag |-> "none"]

(***************************************************************************)
(* USFMFile.py                                                             *)
(***************************************************************************)

\* splitMarkerText( line ): the (marker, text) of one line
splitMarkerText(line) ==
    IF line = << >> THEN [marker |-> NoMarker, text |-> << >>]
    ELSE IF line[1] # BS THEN [marker |-> NoMarker, text |-> line]
    ELSE
        LET lineAfterBackslash == From(line, 1)
            f1 == Find(lineAfterBackslash, SP)
            f2 == Find(lineAfterBackslash, AST)
            f3 == Find(lineAfterBackslash, BS)
            si1 == IF f1 = -1 THEN DUMMY_VALUE ELSE f1
            si2 == IF f2 = -1 THEN DUMMY_VALUE ELSE f2
            si3 == IF f3 = -1 THEN DUMMY_VALUE ELSE f3
            si == Min3(si1, si2, si3)
        IN  IF si = DUMMY_VALUE
            THEN [marker |-> lineAfterBackslash, text |-> << >>]
            ELSE IF si = si3
            THEN [marker |-> Upto(lineAfterBackslash, si3),
                  text |-> From(lineAfterBackslash, si3)]
            ELSE IF si = si2
            THEN [marker |-> Upto(lineAfterBackslash, si2 + 1),
                  text |-> From(lineAfterBackslash, si2 + 1)]
            ELSE [marker |-> Upto(lineAfterBackslash, si1),
                  text |-> From(lineAfterBackslash, si1 + 1)]

\* The marker / text split that USFMFile.read does inline.  It drops the
\* first character of the line whatever that character is.
readSplit(line) ==
    LET lineAfterBackslash == From(line, 1)
        f1 == Find(lineAfterBackslash, SP)
        f2 == Find(lineAfterBackslash, AST)
        f3 == Find(lineAfterBackslash, BS)
        si1 == IF f1 = -1 THEN DUMMY_VALUE ELSE f1
        si2 == IF f2 = -1 THEN DUMMY_VALUE ELSE f2
        si3 == IF f3 = -1 THEN DUMMY_VALUE ELSE f3
        si == Min3(si1, si2, si3)
    IN  IF si # DUMMY_VALUE
        THEN IF si = si3
             THEN [marker |-> Upto(lineAfterBackslash, si3),
                   text |-> From(lineAfterBackslash, si3)]
             ELSE IF si = si2
             THEN [marker |-> Upto(lineAfterBackslash, si2 + 1),
                   text |-> From(lineAfterBackslash, si2 + 1)]
             ELSE [marker |-> Upto(lineAfterBackslash, si1),
                   text |-> From(lineAfterBackslash, si1 + 1)]
        ELSE [marker |-> lineAfterBackslash, text |-> << >>]

\* The continuation branch of read: pop the last entry and append it again
\* with the line added to its text after one space.
appendContinuationNoSpace(res, line) ==
    LET old == res[Len(res)]
    IN  Append(SubSeq(res, 1, Len(res) - 1),
               [marker |-> old.marker, text |-> old.text \o line])

appendContinuation(res, line) ==
    LET old == res[Len(res)]
    IN  Append(SubSeq(res, 1, Len(res) - 1),
               [marker |-> old.marker, text |-> old.text \o << SP >> \o line])

\* The SFM branch of read: keep the entry unless its marker is ignored.
appendEntry(res, mt, ignore) ==
    IF mt.marker \notin ignore THEN Append(res, mt) ELSE res

\* What a non-SFM line does when result is still empty: read logs
\* "line ignored" (at verbosityLevel > 2) and has no continue, so control
\* falls through to the inline split and the line is parsed as an SFM line.
leadingNonSFMLine(res, line, ignore) ==
    appendEntry(res, readSplit(line), ignore)

Decodable(line) == BAD \notin Range(line)

\* The line as the loop body sees it after the BOM test of line 1.
afterBOM(raw, count, utf8) ==
    IF count = 1 /\ utf8 /\ raw # << >> /\ raw[1] = BOM THEN Tail(raw) ELSE raw

\* One iteration of "for line in ourFile": the iterator delivers the next line.
ReadLine ==
    /\ readPc = "reading"
    /\ lineCount < Len(fileLines)
    /\ Decodable(fileLines[lineCount + 1])
    /\ LET raw == fileLines[lineCount + 1]
           hasNewline == (lineCount + 1 < Len(fileLines)) \/ finalNewline
           line == afterBOM(raw, lineCount + 1, encodingUtf8)
       IN  /\ lineCount' = lineCount + 1
           /\ IF line = << >> /\ ~hasNewline
              THEN \* line[-1] of an empty string: IndexError, not caught
                   /\ readPc' = "raised"
                   /\ UNCHANGED << lastLine, marker, result >>
              ELSE IF line = << >>
              THEN UNCHANGED << lastLine, marker, result, readPc >>
              ELSE /\ lastLine' = line
                   /\ readPc' = readPc
                   /\ IF line[1] = HASH
                      THEN UNCHANGED << marker, result >>
                      ELSE IF line[1] # BS /\ Len(result) # 0
                      THEN /\ result' = IF marker \notin ignoreSFMs
                                        THEN appendContinuation(result, line)
                                        ELSE result
                           /\ UNCHANGED marker
                      ELSE IF line[1] # BS
                      THEN /\ marker' = readSplit(line).marker
                           /\ result' = leadingNonSFMLine(result, line, ignoreSFMs)
                      ELSE /\ marker' = readSplit(line).marker
                           /\ result' = appendEntry(result, readSplit(line), ignoreSFMs)
    /\ UNCHANGED << fileLines, finalNewline, encodingUtf8, ignoreSFMs, lines >>
    /\ UNCHANGED << osisVars, registryVars, lazyVars, usfxVars >>

\* The iterator raises UnicodeError: the except clause that encloses the
\* whole for loop logs it, and read goes on to "self.lines = result".
\* Python decodes the file in chunks, so the error is raised when the chunk
\* that holds the bad bytes is decoded: at the bad line or at a line before it.
ReadUnicodeError ==
    /\ readPc = "reading"
    /\ \E k \in (lineCount + 1)..Len(fileLines) : ~Decodable(fileLines[k])
    /\ lines' = result
    /\ readPc' = "done"
    /\ UNCHANGED << fileLines, finalNewline, encodingUtf8, ignoreSFMs,
                    lineCount, lastLine, marker, result >>
    /\ UNCHANGED << osisVars, registryVars, lazyVars, usfxVars >>

\* The file is exhausted: self.lines = result.
ReadFinish ==
    /\ readPc = "reading"
    /\ lineCount = Len(fileLines)
    /\ lines' = result
    /\ readPc' = "done"
    /\ UNCHANGED << fileLines, finalNewline, encodingUtf8, ignoreSFMs,
                    lineCount, lastLine, marker, result >>
    /\ UNCHANGED << osisVars, registryVars, lazyVars, usfxVars >>

(***************************************************************************)
(* Inputs of USFMFile.read                                                 *)
(***************************************************************************)
MaxLines == 3

SampleLines ==
    { << >>,                          \* a blank line
      << HASH, "a" >>,                \* a comment
      << BS, "a" >>,                  \* \a
      << BS, "a", SP, "b" >>,         \* \a b
      << BS, "a", SP >>,              \* \a followed by one space
      << BS, "a", AST, "b" >>,        \* \a*b
      << BS, "a", BS, "b" >>,         \* \a\b
      << BS, "r", SP, "b" >>,         \* \r b
      << "a", SP, "c" >>,             \* a non-SFM line with a space
      << BOM, BS, "a", SP, "b" >>,    \* BOM then \a b
      << BOM >>,                      \* BOM only
      << BAD >> }                     \* undecodable bytes

IgnoreSets == { {}, { << "r" >> } }

Files == UNION { [1..n -> SampleLines] : n \in 0..MaxLines }

\* the XML loader before its first element: nothing built, nothing registered
\* (no constructor in src/ assigns self.thisBook: reading it before the first
\* BibleBook is made raises AttributeError)
\* self.errorDictionary as InternalBible.__init__ leaves it
NoErrors == [k \in { "Priority Errors" } |-> << >>]

OSISNotStarted ==
    /\ bookObjects = << >>
    /\ thisBook = 0
    /\ books = [b \in BookCodes |-> 0]
    /\ savedLines = << >>
    /\ BBB = ""
    /\ mainDivType = ""
    /\ chapterMilestone = << >>
    /\ verseMilestone = << >>
    /\ haveEIDs = FALSE
    /\ loadErrors = << >>
    /\ element = NoElement
    /\ elementCount = 0
    /\ path = << >>
    /\ newBBB = "unbound"
    /\ osisPc = "betweenDivs"
    /\ bookOrder = << >>
    /\ BBBToNameDict = EmptyDict
    /\ bookNameDict = EmptyDict
    /\ combinedBookNameDict = EmptyDict
    /\ bookAbbrevDict = EmptyDict
    /\ reverseDict = EmptyDict
    /\ guesses = << >>
    /\ lastCall = NoCall
    /\ firstResolution = EmptyDict
    /\ callCount = 0
    /\ triedLoadingBook = {}
    /\ bookFacts = EmptyDict
    /\ discoveryResults = NoDiscoveryResults
    /\ lastReport = NoCall
    /\ loadBookCalls = [b \in BookCodes |-> 0]
    /\ usfxC = NoMarker
    /\ usfxV = NoMarker
    /\ usfxLogged = 0
    /\ errorDictionary = NoErrors
    /\ usfxPc = "notLoading"

InitUSFM ==
    /\ OSISNotStarted
    /\ fileLines \in Files
    /\ finalNewline \in BOOLEAN
    /\ finalNewline = FALSE =>
          (fileLines # << >> /\ fileLines[Len(fileLines)] # << >>)
    /\ fileLines = << >> => finalNewline = TRUE
    /\ encodingUtf8 \in BOOLEAN
    /\ ignoreSFMs \in IgnoreSets
    /\ lineCount = 0
    /\ lastLine = << >>
    /\ marker = NoMarker
    /\ result = << >>
    /\ lines = << >>
    /\ readPc = "reading"

NextUSFM == ReadLine \/ ReadUnicodeError \/ ReadFinish

SpecUSFM == InitUSFM /\ [][NextUSFM]_vars

(***************************************************************************)
(* What the marker-line format says a file holds (spec 4.1, 6), computed    *)
(* from the file with splitMarkerText, not with read's own split.          *)
(***************************************************************************)
IsKept(line) == line # << >> /\ line[1] # HASH
IsSFMLine(line) == line # << >> /\ line[1] = BS

\* The non-blank, non-comment lines of the file, in order
KeptLines ==
    SelectSeq([i \in 1..Len(fileLines) |-> afterBOM(fileLines[i], i, encodingUtf8)],
              IsKept)

AllDecodable == \A i \in 1..Len(fileLines) : Decodable(fileLines[i])

FirstKeptIsSFM == KeptLines # << >> /\ IsSFMLine(KeptLines[1])

\* The kept lines grouped into entries: an SFM line and the continuation
\* lines that follow it.  Non-SFM lines before the first SFM line belong to
\* no entry.
RECURSIVE Regroup(_, _)
Regroup(kept, acc) ==
    IF kept = << >> THEN acc
    ELSE LET l == Head(kept)
         IN  IF IsSFMLine(l) THEN Regroup(Tail(kept), Append(acc, << l >>))
             ELSE IF acc = << >> THEN Regroup(Tail(kept), acc)
             ELSE Regroup(Tail(kept),
                          [acc EXCEPT ![Len(acc)] = Append(@, l)])

Entries == Regroup(KeptLines, << >>)

RECURSIVE JoinWithSpaces(_)
JoinWithSpaces(parts) ==
    IF Len(parts) = 0 THEN << >>
    ELSE IF Len(parts) = 1 THEN parts[1]
    ELSE parts[1] \o << SP >> \o JoinWithSpaces(Tail(parts))

\* The pair of one entry: the marker of its SFM line, and that line's content
\* after the marker followed by the continuation lines, joined by single spaces
EntryPair(entry) ==
    [marker |-> splitMarkerText(entry[1]).marker,
     text   |-> JoinWithSpaces(<< splitMarkerText(entry[1]).text >> \o Tail(entry))]

RetainedEntries == SelectSeq(Entries, LAMBDA e : EntryPair(e).marker \notin ignoreSFMs)

ExpectedPairs == [i \in 1..Len(RetainedEntries) |-> EntryPair(RetainedEntries[i])]

\* Re-joining a pair: backslash, marker, text give back the entry's lines
\* joined by single spaces, up to the one space that ends a marker.
Rejoins(pair, entry) ==
    JoinWithSpaces(entry) \in
        { << BS >> \o pair.marker \o pair.text,
          << BS >> \o pair.marker \o << SP >> \o pair.text }

(***************************************************************************)
(* Claims on USFMFile.read                                                 *)
(***************************************************************************)

\* C7: a non-blank, non-comment line that does not begin with a backslash
\* and is read while no entry has been produced yet (result is empty) adds
\* no pair to result.
C7_LeadingNonSFMLineDiscarded ==
    [][ ( /\ readPc = "reading" /\ readPc' = "reading"
          /\ lineCount' = lineCount + 1
          /\ result = << >>
          /\ LET line == afterBOM(fileLines[lineCount'], lineCount', encodingUtf8)
             IN  IsKept(line) /\ ~IsSFMLine(line) )
        => result' = << >> ]_vars

\* C8: after read has finished, every decodable SFM line (with a marker that
\* is not ignored) that comes after an undecodable line has its entry in
\* self.lines.
C8_LaterLinesStillParsed ==
    readPc = "done" =>
        \A k \in 1..Len(fileLines) : ~Decodable(fileLines[k]) =>
            \A i \in (k+1)..Len(fileLines) :
                ( /\ Decodable(fileLines[i])
                  /\ IsSFMLine(fileLines[i])
                  /\ splitMarkerText(fileLines[i]).marker \notin ignoreSFMs )
                => \E j \in 1..Len(lines) :
                      lines[j].marker = splitMarkerText(fileLines[i]).marker

\* C9: with an empty ignore-set and a decodable file whose first kept line is
\* an SFM line, self.lines holds one pair per SFM line, in line order, each
\* with the text after the marker followed by the continuation lines joined
\* by single spaces; and re-joining each pair gives back the entry's lines.
C9_RejoinReconstructsInput ==
    ( readPc = "done" /\ ignoreSFMs = {} /\ AllDecodable /\ FirstKeptIsSFM )
    => /\ lines = ExpectedPairs
       /\ Len(lines) = Len(SelectSeq(KeptLines, IsSFMLine))
       /\ \A i \in 1..Len(lines) : Rejoins(lines[i], Entries[i])

\* C9 witness: a finished read of three kept lines, an entry with a
\* continuation line among them
C9_Witness ==
    /\ readPc = "done" /\ ignoreSFMs = {} /\ AllDecodable /\ FirstKeptIsSFM
    /\ Len(KeptLines) = 3
    /\ Len(lines) = 2
    /\ \E i \in 1..Len(Entries) : Len(Entries[i]) = 2

\* C10: an entry whose marker is in the ignore-set leaves no trace: for a
\* decodable file that starts with an SFM line, self.lines is exactly the
\* pairs of the entries that are not ignored (their continuation lines with
\* them), and nothing of an ignored entry.
C10_IgnoredEntryLeavesNoTrace ==
    ( readPc = "done" /\ AllDecodable /\ FirstKeptIsSFM )
    => lines = ExpectedPairs

(***************************************************************************)
(* The OSIS loader (src/OSISXMLBible.py): strings                          *)
(***************************************************************************)
None == NoMarker                     \* Python's None
Truthy(s) == s # None /\ s # << >>   \* Python's truth value of a str or None

DOT == "."
HYPHEN == "-"
NL == "\n"
CR == "\r"
TAB == "\t"

\* Python's s.count(c) for a one-character c
Count(s, c) == Cardinality({ i \in 1..Len(s) : s[i] = c })

\* Python's s.split(c) for a one-character c: always at least one part
RECURSIVE Split(_, _)
Split(s, c) ==
    IF Find(s, c) = -1 THEN << s >>
    ELSE << Upto(s, Find(s, c)) >> \o Split(From(s, Find(s, c) + 1), c)

\* Python's s.startswith(prefix)
StartsWith(s, prefix) ==
    Len(prefix) <= Len(s) /\ SubSeq(s, 1, Len(prefix)) = prefix

\* Python's list[0:2]
FirstTwo(bits) == SubSeq(bits, 1, IF Len(bits) < 2 THEN Len(bits) ELSE 2)

\* the 17 characters of 'chapterContainer.'
ChapterContainerPrefix ==
    << "c","h","a","p","t","e","r","C","o","n","t","a","i","n","e","r","." >>

\* str.upper(), on the letters the identifiers of the model use
UpperChar(c) ==
    CASE c = "e" -> "E" [] c = "n" -> "N" [] c = "x" -> "X" [] c = "o" -> "O"
      [] c = "d" -> "D" [] c = "y" -> "Y" [] c = "z" -> "Z" [] OTHER -> c
Upper(s) == [i \in 1..Len(s) |-> UpperChar(s[i])]

\* the constant tail of every 'id' line
ConvertedSuffix == << " converted to USFM from OSIS by OSIS XML Bible format handler V0.47" >>

\* clean(): drop trailing newlines, tabs and line ends become spaces,
\* runs of spaces collapse to one space
RECURSIVE dropTrailingNewlines(_)
dropTrailingNewlines(s) ==
    IF s # << >> /\ s[Len(s)] \in { NL, CR }
    THEN dropTrailingNewlines(SubSeq(s, 1, Len(s) - 1))
    ELSE s

RECURSIVE replaceCRLF(_)
replaceCRLF(s) ==
    IF Len(s) < 2 THEN s
    ELSE IF s[1] = CR /\ s[2] = NL THEN << SP >> \o replaceCRLF(From(s, 2))
    ELSE << s[1] >> \o replaceCRLF(From(s, 1))

RECURSIVE collapseSpaces(_)
collapseSpaces(s) ==
    IF Len(s) < 2 THEN s
    ELSE IF s[1] = SP /\ s[2] = SP THEN collapseSpaces(From(s, 1))
    ELSE << s[1] >> \o collapseSpaces(From(s, 1))

clean(elementText) ==
    IF elementText = None THEN None
    ELSE LET r1 == dropTrailingNewlines(elementText)
             r2 == [i \in 1..Len(r1) |-> IF r1[i] = TAB THEN SP ELSE r1[i]]
             r3 == IF NL \in Range(r2) \/ CR \in Range(r2)
                   THEN LET r == replaceCRLF(r2)
                        IN  [i \in 1..Len(r) |-> IF r[i] \in { NL, CR } THEN SP ELSE r[i]]
                   ELSE r2
         IN  collapseSpaces(r3)

\* the diagnostics clean() appends when it is given loadErrors
cleanErrors(elementText) ==
    IF elementText = None THEN << >>
    ELSE LET r1 == dropTrailingNewlines(elementText)
             double == \E i \in 1..(Len(r1) - 1) : r1[i] = SP /\ r1[i+1] = SP
         IN  (IF double THEN << "clean: found multiple spaces" >> ELSE << >>)
             \o (IF TAB \in Range(r1) THEN << "clean: found tab" >> ELSE << >>)
             \o (IF NL \in Range(r1) \/ CR \in Range(r1)
                 THEN << "clean: found CR or LF characters" >> ELSE << >>)

(***************************************************************************)
(* Book codes (BibleBooksCodes) and book objects (BibleBook)               *)
(***************************************************************************)
Gen == << "G", "e", "n" >>
Exod == << "E", "x", "o", "d" >>
Xyz == << "X", "y", "z" >>       \* not an OSIS book identifier

\* BibleBooksCodes.getBBBFromOSIS: the book code, or "KeyError" when it raises
getBBBFromOSIS(osisID) ==
    IF osisID = Gen THEN "GEN" ELSE IF osisID = Exod THEN "EXO" ELSE "KeyError"

\* BibleBooksCodes.getUSFMAbbreviation
getUSFMAbbreviation(code) ==
    IF code = "GEN" THEN Gen ELSE << "E", "x", "o" >>

\* BibleBook( self, BBB ): a new object without lines
BibleBook(objs, code) == Append(objs, [BBB |-> code, rawLines |-> << >>])

\* book.addLine( marker, text ) on object idx
addLine(objs, idx, mk, text) ==
    [objs EXCEPT ![idx].rawLines = Append(@, [marker |-> mk, text |-> text])]

\* book.appendToLastLine( text ) on object idx
appendToLastLine(objs, idx, text) ==
    IF objs[idx].rawLines = << >> THEN objs
    ELSE [objs EXCEPT ![idx].rawLines[Len(objs[idx].rawLines)].text = @ \o text]

\* a registry that keeps the book it already has under a code
saveBookKeepingTheFirst(bks, objs, idx) ==
    IF bks[objs[idx].BBB] # 0 THEN bks ELSE [bks EXCEPT ![objs[idx].BBB] = idx]

\* InternalBible.saveBook: self.books[BBB] = bookData
saveBook(bks, objs, idx) == [bks EXCEPT ![objs[idx].BBB] = idx]

\* str.lower(), on the letters the names of the model use
LowerChar(c) ==
    CASE c = "G" -> "g" [] c = "E" -> "e" [] c = "J" -> "j" [] c = "T" -> "t"
      [] c = "X" -> "x" [] c = "S" -> "s" [] OTHER -> c
Lower(s) == [i \in 1..Len(s) |-> LowerChar(s[i])]

\* str.replace(' ','')
WithoutSpaces(s) == SelectSeq(s, LAMBDA c : c # SP)

\* book.getField( marker ): the text of the first line with that marker
HasField(book, mk) == \E i \in 1..Len(book.rawLines) : book.rawLines[i].marker = mk
getField(book, mk) ==
    book.rawLines[CHOOSE i \in 1..Len(book.rawLines) :
                     /\ book.rawLines[i].marker = mk
                     /\ \A j \in 1..(i - 1) : book.rawLines[j].marker # mk].text

\* book.getAssumedBookNames(): the header, then the main title
getAssumedBookNames(book) ==
    LET h == IF HasField(book, "h") THEN << getField(book, "h") >> ELSE << >>
        mt == IF HasField(book, "mt1") /\ << getField(book, "mt1") >> # h
              THEN << getField(book, "mt1") >> ELSE << >>
    IN  h \o mt

\* saveBook, one assumed name: the three name dictionaries
saveOneName(reg, code, assumedBookName) ==
    LET low == Lower(assumedBookName)
        combined1 == Put(reg.combined, low, code)
    IN  [reg EXCEPT !.toName = Put(@, code, assumedBookName),
                    !.names = Put(@, low, code),
                    !.combined = IF SP \in Range(low)
                                 THEN Put(combined1, WithoutSpaces(low), code)
                                 ELSE combined1]

RECURSIVE saveNames(_, _, _)
saveNames(reg, code, assumedBookNames) ==
    IF assumedBookNames = << >> THEN reg
    ELSE saveNames(saveOneName(reg, code, Head(assumedBookNames)), code,
                   Tail(assumedBookNames))

\* InternalBible.saveBook on the name lookups and on the order of self.books
saveBookNames(reg, book) ==
    saveNames([reg EXCEPT !.order = IF book.BBB \in Range(@) THEN @
                                    ELSE Append(@, book.BBB)],
              book.BBB, getAssumedBookNames(book))

\* the name lookups and the order of self.books, as one record
Registry ==
    [order |-> bookOrder, toName |-> BBBToNameDict, names |-> bookNameDict,
     combined |-> combinedBookNameDict]

\* history: the lines object idx held when saveBook received it
recordSaved(saved, objs, idx) ==
    [i \in 1..Len(objs) |->
        IF i = idx THEN [saved |-> TRUE, rawLines |-> objs[idx].rawLines]
        ELSE IF i <= Len(saved) THEN saved[i]
        ELSE [saved |-> FALSE, rawLines |-> << >>]]

\* the 'id' and 'h' lines of a book (abbrev: USFMAbbreviation or mainDivOsisID)
addIdAndH(objs, idx, abbrev) ==
    addLine(addLine(objs, idx, "id", Upper(abbrev) \o ConvertedSuffix),
            idx, "h", abbrev)

(***************************************************************************)
(* validateChapterElement                                                  *)
(***************************************************************************)
\* what the element handlers read and write, as one record; cm is the
\* handler's own chapterMilestone, raised tells that an exception left it
Locals ==
    [objs |-> bookObjects, this |-> thisBook, books |-> books,
     saved |-> savedLines, reg |-> Registry, BBB |-> BBB, newBBB |-> newBBB,
     errs |-> loadErrors, cm |-> chapterMilestone, raised |-> FALSE]

Raise(st) == [st EXCEPT !.raised = TRUE]
Log(st, msg) == [st EXCEPT !.errs = Append(@, msg)]

\* "We've started on a new book": the previous book is saved when it has
\* more than five lines; a trailing 's' line is taken off it first and
\* comes back as 'mt1' after 'id' and 'h'; then the new BibleBook is made
startNewBook(st, cmBBB) ==
    LET old == st.this
        n == Len(st.objs[old].rawLines)
        save == st.BBB # "" /\ n > 5
        last == st.objs[old].rawLines[n]
        isS == last.marker = "s"
        objs1 == IF isS THEN [st.objs EXCEPT ![old].rawLines = SubSeq(@, 1, n - 1)]
                 ELSE st.objs
        objs2 == IF isS
                 THEN addLine(addIdAndH(objs1, old, getUSFMAbbreviation(st.BBB)),
                              old, "mt1", last.text)
                 ELSE objs1
        st1 == IF save
               THEN [st EXCEPT !.objs = objs2,
                               !.books = saveBook(st.books, objs1, old),
                               !.saved = recordSaved(st.saved, objs1, old),
                               !.reg = saveBookNames(st.reg, objs1[old]),
                               !.cm = << >>]
               ELSE st
    IN  IF old = 0 THEN Raise(st)    \* len(self.thisBook._rawLines) is printed first
        ELSE [st1 EXCEPT !.BBB = cmBBB,
                         !.objs = BibleBook(st1.objs, cmBBB),
                         !.this = Len(st1.objs) + 1]

\* the chapter milestone is open: find its book, start a new book when it
\* differs from BBB, and add the 'c' line
openChapter(st, e) ==
    IF ~Truthy(e.osisID) THEN Log(st, "Missing chapter ID")
    ELSE
    LET st1 == IF Count(e.osisID, DOT) # 1
               THEN Log(st, "chapter ID seems wrong format") ELSE st
        bits == Split(e.osisID, DOT)
        found == getBBBFromOSIS(bits[1])
        cmBBB == IF found = "KeyError" THEN "" ELSE found
        st2 == IF found = "KeyError"
               THEN Log(st1, "not a valid OSIS book identifier") ELSE st1
        st3 == IF cmBBB # "" /\ cmBBB # st2.BBB THEN startNewBook(st2, cmBBB) ELSE st2
    IN  IF Len(bits) < 2 \/ st3.this = 0 THEN Raise(st3)
        ELSE [st3 EXCEPT !.objs = addLine(@, st3.this, "c", bits[2])]

chapterMilestoneElement(st, e) ==
    LET st1 == IF Truthy(verseMilestone) /\ haveEIDs
               THEN Log(st, "Unexpected chapter milestone while verse milestone is still open")
               ELSE st
        isStart == Truthy(e.osisID) /\ Truthy(e.sID) /\ ~Truthy(e.eID)
        isEnd == Truthy(e.eID) /\ ~Truthy(e.osisID) /\ ~Truthy(e.sID)
        isBare == Truthy(e.osisID) /\ ~(Truthy(e.sID) \/ Truthy(e.eID))
        st2 == IF isStart THEN [st1 EXCEPT !.cm = e.sID]
               ELSE IF isEnd
               THEN IF Truthy(st1.cm) /\ e.eID = st1.cm
                    THEN [st1 EXCEPT !.cm = << >>]
                    ELSE Log(st1, "Chapter milestone end didn't match")
               ELSE IF isBare THEN [st1 EXCEPT !.cm = e.osisID]
               ELSE Log(st1, "Unrecognized chapter milestone")
    IN  IF Truthy(st2.cm) THEN openChapter(st2, e) ELSE st2

validateChapterElement(e) ==
    LET st == IF Truthy(e.sID) /\ ~Truthy(e.osisID)
              THEN Log(Locals, "Missing chapter ID attribute") ELSE Locals
    IN  IF ~e.hasChildren /\ (Truthy(e.sID) \/ Truthy(e.eID) \/ Truthy(e.osisID))
        THEN chapterMilestoneElement(st, e)
        ELSE IF e.osisID = None THEN Raise(st)
        ELSE [st EXCEPT !.cm = ChapterContainerPrefix \o e.osisID]

(***************************************************************************)
(* validateVerseElement                                                    *)
(***************************************************************************)
VerseLocals ==
    [objs |-> bookObjects, errs |-> loadErrors, vm |-> verseMilestone,
     haveEIDs |-> haveEIDs, raised |-> FALSE]

VerseContentsPrefix ==
    << "v","e","r","s","e","C","o","n","t","e","n","t","s","#" >>
VerseContainerPrefix ==
    << "v","e","r","s","e","C","o","n","t","a","i","n","e","r","." >>

\* str.strip() leaves something
StripsToText(s) == \E i \in 1..Len(s) : s[i] \notin { SP, NL, CR, TAB }

\* the verse milestone st.vm is open: add its 'v' line, then the tail
emitVerseLine(st, e) ==
    LET vm == st.vm
        chunks == Split(vm, HYPHEN)
        bits1 == Split(chunks[1], DOT)
        bits2raw == Split(chunks[2], DOT)
        bits2 == IF Len(bits2raw) # 3
                 THEN << bits1[1], bits1[2], << "9", "9", "9" >> >> ELSE bits2raw
        st1 == IF Len(chunks) # 2
               THEN Log(st, "Shouldn't have multiple hyphens in verse milestone") ELSE st
        st2 == IF Len(bits1) # 3
               THEN Log(st1, "Expected three components before hyphen") ELSE st1
        st3 == IF Len(bits2raw) # 3
               THEN Log(st2, "Expected three components after hyphen") ELSE st2
        bits == Split(vm, DOT)
        vTail == clean(e.tail)
        withTail(s) == IF Truthy(vTail)
                       THEN [s EXCEPT !.objs = appendToLastLine(@, thisBook, vTail)]
                       ELSE s
    IN  IF HYPHEN \in Range(vm)
        THEN IF Len(bits1) < 3 \/ thisBook = 0 THEN Raise(st3)
             ELSE withTail([st3 EXCEPT !.objs =
                      addLine(@, thisBook, "v", bits1[3] \o << HYPHEN >> \o bits2[3])])
        ELSE IF Len(bits) < 3 \/ thisBook = 0 THEN Raise(st)
             ELSE withTail([st EXCEPT !.objs =
                      addLine(@, thisBook, "v", bits[3] \o << SP >>)])

verseStartMilestone(st, e) ==
    LET st1 == IF Truthy(st.vm) /\ haveEIDs
               THEN Log(st, "Got a verse milestone while another is still open") ELSE st
        st2 == [st1 EXCEPT !.vm = e.sID]
        vmBits == Split(e.sID, DOT)
        cmBits == Split(chapterMilestone, DOT)
        st3 == IF StartsWith(chapterMilestone, ChapterContainerPrefix)
               THEN IF ~StartsWith(e.sID, From(chapterMilestone, 17))
                    THEN Log(st2, "verse milestone seems wrong in chapter container") ELSE st2
               ELSE IF FirstTwo(vmBits) # FirstTwo(cmBits)
                    THEN Log(st2, "verse milestone seems wrong in chapter milestone") ELSE st2
    IN  emitVerseLine(st3, e)

verseEndMilestone(st, e) ==
    LET st1 == [st EXCEPT !.haveEIDs = TRUE]
        st2 == IF Truthy(st.vm)
               THEN IF e.eID = st.vm THEN st1
                    ELSE Log(st1, "verse milestone end didn't match")
               ELSE Log(st1, "verse end milestone but no verse start milestone")
    IN  [st2 EXCEPT !.vm = << >>]

verseContainerElement(st, e) ==
    LET bits == Split(e.osisID, DOT)
    IN  IF e.osisID = None \/ e.text = None THEN Raise(st)
        ELSE IF Len(bits) < 3 THEN Raise(st)
        ELSE IF StripsToText(e.text)
             THEN [st EXCEPT !.vm = VerseContentsPrefix \o bits[3] \o << HASH >> \o e.text]
             ELSE [st EXCEPT !.vm = VerseContainerPrefix \o bits[3]]

validateVerseElement(e) ==
    LET st == IF Truthy(e.sID) /\ ~Truthy(e.osisID)
              THEN Log(VerseLocals, "Missing verse attributes") ELSE VerseLocals
    IN  IF ~e.hasChildren /\ (Truthy(e.sID) \/ Truthy(e.eID))
        THEN IF Truthy(e.sID) /\ Truthy(e.osisID) /\ ~Truthy(e.eID)
             THEN verseStartMilestone(st, e)
             ELSE IF Truthy(e.eID) /\ ~Truthy(e.osisID) /\ ~Truthy(e.sID)
             THEN verseEndMilestone(st, e)
             ELSE Raise(st)          \* "Unrecognized verse milestone": halt
        ELSE verseContainerElement(st, e)

(***************************************************************************)
(* validateTitle and the first lines of validateParagraph                  *)
(***************************************************************************)
\* the marker validateTitle gives a title with text, or "raise"
titleMarker(e) ==
    IF Truthy(chapterMilestone)
    THEN IF e.type = "parallel" THEN "sr"
         ELSE IF e.canonical = "true"
         THEN IF e.type = "psalm" THEN "d" ELSE "raise"
         ELSE "s"
    ELSE "imt"

paragraphMarker == IF Truthy(chapterMilestone) THEN "p" ELSE "ip"

(***************************************************************************)
(* validateAndExtractBookDiv: one action per element                       *)
(***************************************************************************)
Elem(tag, osisID, sID, eID, hasChildren, text, tail, type, canonical) ==
    [tag |-> tag, osisID |-> osisID, sID |-> sID, eID |-> eID,
     hasChildren |-> hasChildren, text |-> text, tail |-> tail,
     type |-> type, canonical |-> canonical]

Top == IF path = << >> THEN "bookDiv" ELSE path[Len(path)]

\* "Fix a bug in the Snowfall USFM to OSIS software": 1Kgs.1 becomes 1Kgs
fixSnowfall(id) ==
    IF Len(id) > 3 /\ id[Len(id)] \in { "1", "2", "3" } /\ id[Len(id) - 1] = DOT
    THEN SubSeq(id, 1, Len(id) - 2) ELSE id

\* the start of validateAndExtractBookDiv, up to its loop over the elements
BeginBookDiv(type, osisID, max) ==
    /\ osisPc = "betweenDivs"
    /\ elementCount < max
    /\ LET id == fixSnowfall(osisID)
           found == IF type = "book" THEN getBBBFromOSIS(id) ELSE "KeyError"
           code == IF found = "KeyError" THEN "" ELSE found
           objs1 == IF code # "" THEN BibleBook(bookObjects, code) ELSE bookObjects
           this1 == IF code # "" THEN Len(objs1) ELSE thisBook
           raised == type = "book" /\ this1 = 0
           abbrev == IF code # "" THEN getUSFMAbbreviation(code) ELSE id
       IN  /\ bookObjects' = IF type = "book" /\ ~raised
                             THEN addIdAndH(objs1, this1, abbrev) ELSE objs1
           /\ thisBook' = this1
           /\ BBB' = code
           /\ loadErrors' = IF type = "book" THEN loadErrors
                            ELSE Append(loadErrors, "What kind of OSIS book div is this?")
           /\ osisPc' = IF raised THEN "raised" ELSE "inBookDiv"
    /\ mainDivType' = type
    /\ haveEIDs' = FALSE
    /\ newBBB' = "unbound"
    /\ chapterMilestone' = << >>
    /\ verseMilestone' = << >>
    /\ path' = << >>
    /\ element' = Elem("div", osisID, None, None, TRUE, None, None, type, "")
    /\ elementCount' = elementCount + 1
    /\ UNCHANGED << books, savedLines >>
    /\ UNCHANGED << usfmVars, lazyVars, usfxVars, registryVars >>

\* the end of validateAndExtractBookDiv: "if BBB: self.saveBook( self.thisBook )"
EndBookDiv ==
    /\ osisPc = "inBookDiv"
    /\ path = << >>
    /\ IF BBB # ""
       THEN /\ books' = saveBook(books, bookObjects, thisBook)
            /\ savedLines' = recordSaved(savedLines, bookObjects, thisBook)
            /\ LET reg == saveBookNames(Registry, bookObjects[thisBook])
               IN  /\ bookOrder' = reg.order
                   /\ BBBToNameDict' = reg.toName
                   /\ bookNameDict' = reg.names
                   /\ combinedBookNameDict' = reg.combined
       ELSE UNCHANGED << books, savedLines, nameVars >>
    /\ osisPc' = "betweenDivs"
    /\ UNCHANGED << bookObjects, thisBook, BBB, mainDivType, chapterMilestone,
                    verseMilestone, haveEIDs, loadErrors, element,
                    elementCount, path, newBBB >>
    /\ UNCHANGED << usfmVars, lazyVars, usfxVars, callCount, guessVars, reportVars >>

\* the chapter branch of the book div's own loop, after validateChapterElement
afterChapterOfBookDiv(r) ==
    LET found == getBBBFromOSIS(Split(r.cm, DOT)[1])
        nb == IF found = "KeyError" THEN r.newBBB ELSE found
        r1 == IF Truthy(r.cm) /\ mainDivType = "bookGroup"
              THEN IF nb = "unbound" THEN Raise(r)
                   ELSE [r EXCEPT !.newBBB = nb, !.BBB = nb]
              ELSE r
        chapterBits == Split(From(r.cm, 17), DOT)
    IN  IF r1.raised THEN r1
        ELSE IF StartsWith(r1.cm, ChapterContainerPrefix)
        THEN IF Len(chapterBits) < 2 \/ r1.this = 0 THEN Raise(r1)
             ELSE [r1 EXCEPT !.objs = addLine(@, r1.this, "c", chapterBits[2])]
        ELSE r1

\* a chapter element, as a child of the book div, of a section div or of a
\* paragraph
ChapterElement(e, max) ==
    /\ osisPc = "inBookDiv"
    /\ elementCount < max
    /\ LET r0 == validateChapterElement(e)
           r == IF r0.raised \/ path # << >> THEN r0 ELSE afterChapterOfBookDiv(r0)
       IN  /\ bookObjects' = r.objs
           /\ thisBook' = r.this
           /\ books' = r.books
           /\ savedLines' = r.saved
           /\ bookOrder' = r.reg.order
           /\ BBBToNameDict' = r.reg.toName
           /\ bookNameDict' = r.reg.names
           /\ combinedBookNameDict' = r.reg.combined
           /\ BBB' = r.BBB
           /\ newBBB' = r.newBBB
           /\ loadErrors' = r.errs
           /\ chapterMilestone' = IF r.raised THEN chapterMilestone ELSE r.cm
           /\ osisPc' = IF r.raised THEN "raised" ELSE osisPc
    /\ element' = e
    /\ elementCount' = elementCount + 1
    /\ UNCHANGED << mainDivType, verseMilestone, haveEIDs, path >>
    /\ UNCHANGED << usfmVars, lazyVars, usfxVars, callCount, guessVars, reportVars >>

\* a verse element, as a child of the book div, of a section div or of a
\* paragraph
VerseElement(e, max) ==
    /\ osisPc = "inBookDiv"
    /\ elementCount < max
    /\ LET r == validateVerseElement(e)
       IN  /\ bookObjects' = r.objs
           /\ loadErrors' = r.errs
           /\ haveEIDs' = r.haveEIDs
           /\ verseMilestone' = IF r.raised THEN verseMilestone ELSE r.vm
           /\ osisPc' = IF r.raised THEN "raised" ELSE osisPc
    /\ element' = e
    /\ elementCount' = elementCount + 1
    /\ UNCHANGED << thisBook, books, savedLines, BBB, mainDivType,
                    chapterMilestone, path, newBBB >>
    /\ UNCHANGED << usfmVars, lazyVars, usfxVars, registryVars >>

\* a title element without sub-titles, as a child of the book div or of a
\* section div
TitleElement(e, max) ==
    /\ osisPc = "inBookDiv"
    /\ elementCount < max
    /\ Top \in { "bookDiv", "div" }
    /\ LET titleText == clean(e.text)
           raised == Truthy(titleText) /\ (titleMarker(e) = "raise" \/ thisBook = 0)
       IN  /\ loadErrors' = loadErrors \o cleanErrors(e.text)
           /\ bookObjects' = IF Truthy(titleText) /\ ~raised
                             THEN addLine(bookObjects, thisBook, titleMarker(e), titleText)
                             ELSE bookObjects
           /\ osisPc' = IF raised THEN "raised" ELSE osisPc
    /\ element' = e
    /\ elementCount' = elementCount + 1
    /\ UNCHANGED << thisBook, books, savedLines, BBB, mainDivType,
                    chapterMilestone, verseMilestone, haveEIDs, path, newBBB >>
    /\ UNCHANGED << usfmVars, lazyVars, usfxVars, registryVars >>

\* a section div of the book div is entered
OpenSectionDiv(max) ==
    /\ osisPc = "inBookDiv"
    /\ elementCount < max
    /\ path = << >>
    /\ path' = << "div" >>
    /\ element' = Elem("div", None, None, None, TRUE, None, None, "section", "")
    /\ elementCount' = elementCount + 1
    /\ UNCHANGED << bookObjects, thisBook, books, savedLines, BBB, mainDivType,
                    chapterMilestone, verseMilestone, haveEIDs, loadErrors,
                    newBBB, osisPc >>
    /\ UNCHANGED << usfmVars, lazyVars, usfxVars, registryVars >>

\* validateParagraph up to its loop: a paragraph without type and text
OpenParagraph(max) ==
    /\ osisPc = "inBookDiv"
    /\ elementCount < max
    /\ Top \in { "bookDiv", "div" }
    /\ IF thisBook = 0
       THEN osisPc' = "raised" /\ UNCHANGED << bookObjects, path >>
       ELSE /\ bookObjects' = addLine(bookObjects, thisBook, paragraphMarker, << >>)
            /\ path' = Append(path, "p")
            /\ UNCHANGED osisPc
    /\ element' = Elem("p", None, None, None, TRUE, None, None, "", "")
    /\ elementCount' = elementCount + 1
    /\ UNCHANGED << thisBook, books, savedLines, BBB, mainDivType,
                    chapterMilestone, verseMilestone, haveEIDs, loadErrors,
                    newBBB >>
    /\ UNCHANGED << usfmVars, lazyVars, usfxVars, registryVars >>

\* the loop over the children of a paragraph or section div is over
CloseContainer ==
    /\ osisPc = "inBookDiv"
    /\ path # << >>
    /\ path' = SubSeq(path, 1, Len(path) - 1)
    /\ UNCHANGED << bookObjects, thisBook, books, savedLines, BBB, mainDivType,
                    chapterMilestone, verseMilestone, haveEIDs, loadErrors,
                    element, elementCount, newBBB, osisPc >>
    /\ UNCHANGED << usfmVars, lazyVars, usfxVars, registryVars >>

(***************************************************************************)
(* Inputs of the OSIS loader                                               *)
(***************************************************************************)
MaxElements == 4          \* elements per document, Spec
MaxSwitchElements == 6    \* elements per document, SpecBookSwitch

ChapterID(book, c) == book \o << DOT, c >>
VerseID(book, c, v) == book \o << DOT, c, DOT >> \o v

ChapterStart(id) == Elem("chapter", id, id, None, FALSE, None, None, "", "")
ChapterEnd(id) == Elem("chapter", None, None, id, FALSE, None, None, "", "")
ChapterBare(id) == Elem("chapter", id, None, None, FALSE, None, None, "", "")
ChapterContainer(id) == Elem("chapter", id, None, None, TRUE, None, None, "", "")
VerseStart(id, tail) == Elem("verse", id, id, None, FALSE, None, tail, "", "")
VerseEnd(id) == Elem("verse", None, None, id, FALSE, None, None, "", "")
Title(text, type, canonical) ==
    Elem("title", None, None, None, FALSE, text, None, type, canonical)

ChapterElements ==
    { ChapterStart(ChapterID(Gen, "1")),
      ChapterStart(ChapterID(Gen, "2")),
      ChapterStart(ChapterID(Exod, "1")),
      ChapterStart(ChapterID(Xyz, "1")),     \* not a book
      ChapterStart(Gen),                     \* no chapter number
      ChapterEnd(ChapterID(Gen, "1")),
      ChapterBare(ChapterID(Gen, "2")),
      ChapterContainer(ChapterID(Gen, "1")),
      ChapterContainer(None),                \* a container without osisID
      Elem("chapter", None, ChapterID(Gen, "1"), None, FALSE, None, None, "", "") }

RangeID(y) == VerseID(Gen, "1", << "6" >>) \o << HYPHEN >> \o VerseID(Gen, "1", y)

VerseElements ==
    { VerseStart(VerseID(Gen, "1", << "1" >>), None),
      VerseStart(VerseID(Gen, "1", << "2" >>), << "d", NL >>),
      VerseStart(RangeID(<< "7" >>), None),
      VerseStart(RangeID(<< "7" >>), << "7", "d" >>),
      VerseStart(RangeID(<< "7", "7" >>), << "d" >>),
      VerseStart(ChapterID(Gen, "1"), None),  \* no verse number
      VerseEnd(VerseID(Gen, "1", << "1" >>)),
      VerseEnd(VerseID(Gen, "1", << "2" >>)),
      Elem("verse", None, VerseID(Gen, "1", << "1" >>), None, FALSE, None, None, "", ""),
      Elem("verse", VerseID(Gen, "1", << "3" >>), None, None, FALSE, << "t" >>, None, "", "") }

TitleElements ==
    { Title(<< "T" >>, "", ""),
      Title(<< "T", TAB, "r" >>, "parallel", ""),
      Title(<< "T" >>, "", "true"),          \* canonical, but not a psalm title
      Title(<< "T" >>, "psalm", "true"),
      Title(None, "", "") }

BookDivs ==
    { << "book", Gen >>, << "book", Exod >>, << "book", Xyz >>,
      << "bookGroup", Gen >> }

\* USFMFile.read is not running
USFMNotStarted ==
    /\ fileLines = << >>
    /\ finalNewline = TRUE
    /\ encodingUtf8 = TRUE
    /\ ignoreSFMs = {}
    /\ lineCount = 0
    /\ lastLine = << >>
    /\ marker = NoMarker
    /\ result = << >>
    /\ lines = << >>
    /\ readPc = "reading"

Init == OSISNotStarted /\ USFMNotStarted

Next ==
    \/ \E d \in BookDivs : BeginBookDiv(d[1], d[2], MaxElements)
    \/ \E e \in ChapterElements : ChapterElement(e, MaxElements)
    \/ \E e \in VerseElements : VerseElement(e, MaxElements)
    \/ \E e \in TitleElements : TitleElement(e, MaxElements)
    \/ OpenSectionDiv(MaxElements)
    \/ OpenParagraph(MaxElements)
    \/ CloseContainer
    \/ EndBookDiv

Spec == Init /\ [][Next]_vars

\* documents of well-formed start milestones in book divs, long enough for a
\* book of more than five lines to be followed by another book
SwitchChapters == { ChapterStart(ChapterID(Gen, "1")), ChapterStart(ChapterID(Exod, "1")) }
SwitchVerses ==
    { VerseStart(VerseID(Gen, "1", << "1" >>), None),
      VerseStart(VerseID(Gen, "1", << "2" >>), << "d", NL >>) }
SwitchTitle == Title(<< "T" >>, "", "")

NextBookSwitch ==
    \/ BeginBookDiv("book", Gen, MaxSwitchElements)
    \/ \E e \in SwitchChapters : ChapterElement(e, MaxSwitchElements)
    \/ \E e \in SwitchVerses : VerseElement(e, MaxSwitchElements)
    \/ TitleElement(SwitchTitle, MaxSwitchElements)
    \/ EndBookDiv

SpecBookSwitch == Init /\ [][NextBookSwitch]_vars

(***************************************************************************)
(* Claims about the OSIS loader                                            *)
(***************************************************************************)
\* the last step processed a chapter element
ChapterStep == elementCount' = elementCount + 1 /\ element'.tag = "chapter"

\* C1: whenever a chapter milestone makes the loader leave the book it is
\* building (BBB) for a new book object, the book it leaves is registered in
\* self.books by the time the new book has its first line, however few
\* lines the book it leaves holds.
C1_CurrentBookSavedAtBookSwitch ==
    [][ ( ChapterStep /\ BBB # "" /\ thisBook' # thisBook )
        => books'[BBB] = thisBook ]_vars

\* C2: a book object that saveBook has received keeps exactly the lines it
\* had at that moment: no line is added to it or taken from it afterwards.
C2_SavedBookKeepsItsLines ==
    \A i \in 1..Len(savedLines) :
        savedLines[i].saved => bookObjects[i].rawLines = savedLines[i].rawLines

\* the 'c' lines of a book object, in order
CLinesOf(objs, idx) ==
    IF idx = 0 THEN << >>
    ELSE SelectSeq(objs[idx].rawLines, LAMBDA l : l.marker = "c")

\* e opens chapter B.N of the book being built, as a start milestone or as
\* a container
OpensChapterOfCurrentBook(e) ==
    /\ e.tag = "chapter"
    /\ Truthy(e.osisID)
    /\ Count(e.osisID, DOT) = 1
    /\ BBB # ""
    /\ getBBBFromOSIS(Split(e.osisID, DOT)[1]) = BBB
    /\ \/ e.hasChildren /\ e.sID = None /\ e.eID = None
       \/ ~e.hasChildren /\ e.sID = e.osisID /\ e.eID = None

\* C3: a chapter of the book being built contributes the same 'c' line (one
\* line, carrying its chapter number, after the earlier ones) whether it is
\* encoded as a start milestone or as a container, and whether the element
\* is a child of the book div, of a section div or of a paragraph.
C3_SameChapterLinesInEveryEncoding ==
    [][ ( ChapterStep /\ OpensChapterOfCurrentBook(element') )
        => CLinesOf(bookObjects', thisBook')
             = Append(CLinesOf(bookObjects, thisBook),
                      [marker |-> "c", text |-> Split(element'.osisID, DOT)[2]]) ]_vars

\* C4: no element of the document makes the loader raise.
C4_LoadNeverRaises == osisPc # "raised"

\* e is a verse start milestone whose identifier is a range B.C.X-B.C.Y
IsRangeStart(e) ==
    /\ e.tag = "verse"
    /\ ~e.hasChildren
    /\ Truthy(e.sID) /\ e.osisID = e.sID /\ e.eID = None
    /\ Len(Split(e.sID, HYPHEN)) = 2
    /\ Len(Split(Split(e.sID, HYPHEN)[1], DOT)) = 3
    /\ Len(Split(Split(e.sID, HYPHEN)[2], DOT)) = 3

RangeToken(e) ==
    Split(Split(e.sID, HYPHEN)[1], DOT)[3] \o << HYPHEN >>
        \o Split(Split(e.sID, HYPHEN)[2], DOT)[3]

LastLineOf(objs, idx) == objs[idx].rawLines[Len(objs[idx].rawLines)]

\* the text of the 'v' line that the loader builds for e
VerseLineFor(e) ==
    LastLineOf(emitVerseLine([VerseLocals EXCEPT !.vm = e.sID], e).objs, thisBook).text

\* the last element was a range verse start and its 'v' line is complete
RangeLineBuilt ==
    /\ osisPc = "inBookDiv"
    /\ thisBook # 0
    /\ IsRangeStart(element)
    /\ bookObjects[thisBook].rawLines # << >>
    /\ LastLineOf(bookObjects, thisBook).marker = "v"

\* C5: the 'v' line of a range verse start begins with the token X-Y, and
\* the line with its trailing text tells the range: no verse start with
\* another range yields the same line.
C5_RangeReconstructibleFromVerseLine ==
    RangeLineBuilt
    => /\ StartsWith(LastLineOf(bookObjects, thisBook).text, RangeToken(element))
       /\ \A e2 \in VerseElements :
             ( IsRangeStart(e2)
               /\ VerseLineFor(e2) = LastLineOf(bookObjects, thisBook).text )
             => e2.sID = element.sID

\* e is an illegal cursor transition in the current state
IllegalTransition(e) ==
    \/ /\ e.tag = "verse" /\ ~e.hasChildren
       /\ Truthy(e.eID) /\ ~Truthy(e.osisID) /\ ~Truthy(e.sID)
       /\ ~Truthy(verseMilestone)
    \/ /\ e.tag = "chapter" /\ ~e.hasChildren
       /\ Truthy(e.eID) /\ ~Truthy(e.osisID) /\ ~Truthy(e.sID)
       /\ e.eID # chapterMilestone
    \/ /\ e.tag = "chapter" /\ ~e.hasChildren
       /\ Truthy(e.osisID) /\ Truthy(e.sID) /\ ~Truthy(e.eID)
       /\ Truthy(chapterMilestone)

\* C6: every illegal cursor transition (a verse end milestone with no open
\* verse, a chapter end milestone that does not match the open chapter, a
\* chapter start milestone while a chapter is open) adds at least one
\* diagnostic to loadErrors.
C6_IllegalTransitionIsDiagnosed ==
    [][ ( elementCount' = elementCount + 1 /\ IllegalTransition(element') )
        => Len(loadErrors') > Len(loadErrors) ]_vars

(***************************************************************************)
(* InternalBible.guessXRefBBB (src/InternalBible.py)                       *)
(***************************************************************************)
NoBook == "None"      \* None, where a book code is expected

CodeChars(code) ==
    CASE code = "GEN" -> << "G", "E", "N" >> [] code = "EXO" -> << "E", "X", "O" >>
      [] code = "JDG" -> << "J", "D", "G" >> [] code = "JUD" -> << "J", "U", "D" >>

\* BibleBooksCodes.getBBB: the code itself when the string is a book code
getBBB(referenceString) ==
    IF \E c \in BookCodes : CodeChars(c) = referenceString
    THEN CHOOSE c \in BookCodes : CodeChars(c) = referenceString
    ELSE NoBook

\* str.split(): the words of a name
Words(name) == SelectSeq(Split(name, SP), LAMBDA w : w # << >>)

\* the one element of a set of one element
TheOne(S) == CHOOSE x \in S : TRUE

\* what guessXRefBBB reads and writes, and what it returns
GuessLocals ==
    [abbrev |-> bookAbbrevDict, reverse |-> reverseDict, guesses |-> guesses,
     result |-> NoBook, raised |-> FALSE, scanned |-> FALSE]

\* "Save to make it faster next time", the entry of the guesses log, and
\* (except for the first-letter tier) reverseDict
resolveGuess(g, referenceString, code, tier) ==
    [g EXCEPT !.abbrev = Put(@, Lower(referenceString), code),
              !.guesses = Append(@, [text |-> "Guessed", ref |-> referenceString,
                                     code |-> code, tier |-> tier]),
              !.reverse = IF tier = "firstletter+" THEN @
                          ELSE Put(@, code, referenceString),
              !.result = code]

\* the book names that start with the string
startswithMatches(dict, adjRefString) ==
    { bookName \in DOMAIN dict : StartsWith(bookName, adjRefString) }

\* the number of words of the names with a space that start with the string
wordMatches(adjRefString) ==
    { << bookName, i >> \in (DOMAIN bookNameDict) \X (1..4) :
         /\ SP \in Range(bookName)
         /\ i <= Len(Words(bookName))
         /\ StartsWith(Words(bookName)[i], adjRefString) }

\* the names with the same first letter that hold the other letters
firstLetterMatches(adjRefString) ==
    { bookName \in DOMAIN bookNameDict :
         /\ bookName # << >>
         /\ adjRefString[1] = bookName[1]
         /\ \A i \in 2..Len(adjRefString) : adjRefString[i] \in Range(Tail(bookName)) }

\* the entry of the guesses log for a string that no tier resolved
CouldntGuess(referenceString) ==
    [text |-> "Couldn't guess", ref |-> Upto(referenceString, 5),
     code |-> NoBook, tier |-> ""]

\* the last tiers and the failure: word startswith, first letter plus other
\* letters, "Couldn't guess"
guessByWordsOrLetters(g, referenceString, count) ==
    LET adjRefString == Lower(referenceString)
        words == wordMatches(adjRefString)
        count1 == IF count = 0 THEN Cardinality(words) ELSE count
        letters == firstLetterMatches(adjRefString)
        couldnt == CouldntGuess(referenceString)
    IN  IF count = 0 /\ count1 = 1
        THEN resolveGuess(g, referenceString, bookNameDict[TheOne(words)[1]], "word startswith")
        ELSE IF count1 = 0 /\ << >> \in DOMAIN bookNameDict
        THEN [g EXCEPT !.raised = TRUE]       \* "if not bookName: ...; halt"
        ELSE IF count1 = 0 /\ Cardinality(letters) = 1
        THEN resolveGuess(g, referenceString, bookNameDict[TheOne(letters)], "firstletter+")
        ELSE IF couldnt \in Range(g.guesses) THEN g
        ELSE [g EXCEPT !.guesses = Append(@, couldnt)]

\* the tiers that scan the names: startswith1, startswith2, then the rest
guessByScanning(g0, referenceString) ==
    LET g == [g0 EXCEPT !.scanned = TRUE]
        adjRefString == Lower(referenceString)
        m1 == startswithMatches(bookNameDict, adjRefString)
        count == Cardinality(m1)
        unknown == { bookName \in m1 : bookNameDict[bookName] \notin DOMAIN g.reverse }
        m2 == startswithMatches(combinedBookNameDict, adjRefString)
    IN  IF count = 1
        THEN resolveGuess(g, referenceString, bookNameDict[TheOne(m1)], "startswith1")
        ELSE IF count = 2 /\ Cardinality(unknown) = 1
        THEN resolveGuess(g, referenceString, bookNameDict[TheOne(unknown)], "startswith1SECOND")
        ELSE IF count = 0 /\ Cardinality(m2) = 1
        THEN resolveGuess(g, referenceString, combinedBookNameDict[TheOne(m2)], "startswith2")
        ELSE guessByWordsOrLetters(g, referenceString,
                                   IF count = 0 THEN Cardinality(m2) ELSE count)

guessXRefBBB(referenceString) ==
    LET g == GuessLocals
        adjRefString == Lower(referenceString)
    IN  IF getBBB(referenceString) # NoBook
        THEN [g EXCEPT !.result = getBBB(referenceString)]
        ELSE IF adjRefString \in DOMAIN combinedBookNameDict
        THEN [g EXCEPT !.result = combinedBookNameDict[adjRefString],
                       !.reverse = Put(@, combinedBookNameDict[adjRefString], referenceString)]
        ELSE IF adjRefString \in DOMAIN bookAbbrevDict
        THEN [g EXCEPT !.result = bookAbbrevDict[adjRefString],
                       !.reverse = Put(@, bookAbbrevDict[adjRefString], referenceString)]
        ELSE IF \E code \in DOMAIN reverseDict : reverseDict[code] = referenceString
        THEN [g EXCEPT !.raised = TRUE]       \* the program check
        ELSE guessByScanning(g, referenceString)

(***************************************************************************)
(* The registry: saveBook and guessXRefBBB calls on one InternalBible      *)
(***************************************************************************)
MaxCalls == 4

Judges == << "J", "u", "d", "g", "e", "s" >>
Jude == << "J", "u", "d", "e" >>
Jud == << "J", "u", "d" >>
StJude == << "S", "t", SP, "J", "u", "d", "e" >>

\* the books a loader hands to saveBook: their code and their header
SavedBooks ==
    { << "JDG", Judges >>, << "JUD", Jude >>, << "JUD", Jud >>,
      << "JUD", StJude >>, << "JDG", << >> >> }

\* the strings guessXRefBBB is asked about
ReferenceStrings ==
    { << "j", "u" >>, << "j", "u", "d" >>, Jud, Judges, << "j", "g" >>,
      << "J", "D", "G" >>,
      << "s", "t", "j" >>, << "z", "z" >>, << "j", "u", "d", "e", "s", "x" >> }

\* saveBook( bookData ) for a new book object with that code and header
SaveBook(code, header, max) ==
    /\ callCount < max
    /\ LET idx == Len(bookObjects) + 1
           objs1 == addLine(BibleBook(bookObjects, code), idx, "h", header)
           reg == saveBookNames(Registry, objs1[idx])
       IN  /\ bookObjects' = objs1
           /\ books' = saveBook(books, objs1, idx)
           /\ savedLines' = recordSaved(savedLines, objs1, idx)
           /\ bookOrder' = reg.order
           /\ BBBToNameDict' = reg.toName
           /\ bookNameDict' = reg.names
           /\ combinedBookNameDict' = reg.combined
    /\ callCount' = callCount + 1
    /\ lastCall' = [op |-> "saveBook", arg |-> code, result |-> NoBook,
                    raised |-> FALSE, scanned |-> FALSE]
    /\ UNCHANGED << thisBook, BBB, mainDivType, chapterMilestone, verseMilestone,
                    haveEIDs, loadErrors, element, elementCount, path, newBBB,
                    osisPc >>
    /\ UNCHANGED << bookAbbrevDict, reverseDict, guesses, firstResolution >>
    /\ UNCHANGED << usfmVars, lazyVars, usfxVars, reportVars >>

\* guessXRefBBB( referenceString )
GuessXRefBBB(referenceString, max) ==
    /\ callCount < max
    /\ LET g == guessXRefBBB(referenceString)
           adjRefString == Lower(referenceString)
       IN  /\ bookAbbrevDict' = g.abbrev
           /\ reverseDict' = g.reverse
           /\ guesses' = g.guesses
           /\ lastCall' = [op |-> "guessXRefBBB", arg |-> referenceString,
                           result |-> g.result, raised |-> g.raised,
                           scanned |-> g.scanned]
           /\ firstResolution' =
                 IF g.result # NoBook /\ adjRefString \notin DOMAIN firstResolution
                 THEN Put(firstResolution, adjRefString, g.result)
                 ELSE firstResolution
    /\ callCount' = callCount + 1
    /\ UNCHANGED << usfmVars, lazyVars, usfxVars, osisVars, nameVars, reportVars >>

NextRegistry ==
    \/ \E b \in SavedBooks : SaveBook(b[1], b[2], MaxCalls)
    \/ \E r \in ReferenceStrings : GuessXRefBBB(r, MaxCalls)

SpecRegistry == Init /\ [][NextRegistry]_vars

(***************************************************************************)
(* Claims about the registry                                               *)
(***************************************************************************)
\* a call of guessXRefBBB has just returned
GuessStep == callCount' = callCount + 1 /\ lastCall'.op = "guessXRefBBB"

\* C11: once guessXRefBBB has resolved a string to a book code, every later
\* call with the same string (compared without case) returns that code,
\* whatever saveBook and guessXRefBBB calls come in between.
C11_ResolutionIsPermanent ==
    [][(GuessStep /\ Lower(lastCall'.arg) \in DOMAIN firstResolution)
         => (/\ ~lastCall'.raised
             /\ lastCall'.result = firstResolution[Lower(lastCall'.arg)])]_vars

\* C12: two consecutive guessXRefBBB calls with the same string return the
\* same result, and the second is answered from the lookups, without a scan
\* of the book names.
C12_SecondCallServedFromCache ==
    [][(/\ GuessStep
        /\ lastCall.op = "guessXRefBBB"
        /\ ~lastCall.raised
        /\ lastCall'.arg = lastCall.arg)
         => (/\ ~lastCall'.raised
             /\ lastCall'.result = lastCall.result
             /\ ~lastCall'.scanned)]_vars

\* C13: guessXRefBBB never raises, for any non-empty string and any state of
\* the registry (the program check included); a string that no tier resolves
\* returns None and the attempt is in the guesses log.
C13_GuessNeverRaises ==
    [][GuessStep
         => (/\ ~lastCall'.raised
             /\ lastCall'.result = NoBook
                  => CouldntGuess(lastCall'.arg) \in Range(guesses'))]_vars

\* the book has a cached abbreviation or an earlier resolution
AlreadyKnown(code) ==
    \/ code \in DOMAIN reverseDict
    \/ \E abbrev \in DOMAIN bookAbbrevDict : bookAbbrevDict[abbrev] = code

\* the books of the names that start with the string
PrefixedBooks(referenceString) ==
    { bookNameDict[bookName] :
        bookName \in startswithMatches(bookNameDict, Lower(referenceString)) }

\* the string is answered by no lookup, is a prefix of exactly two names, of
\* two different books, and exactly one of the two books is already known
TwoNamesOneKnown(referenceString) ==
    /\ getBBB(referenceString) = NoBook
    /\ Lower(referenceString) \notin DOMAIN combinedBookNameDict
    /\ Lower(referenceString) \notin DOMAIN bookAbbrevDict
    /\ Cardinality(startswithMatches(bookNameDict, Lower(referenceString))) = 2
    /\ Cardinality(PrefixedBooks(referenceString)) = 2
    /\ Cardinality({ code \in PrefixedBooks(referenceString) : AlreadyKnown(code) }) = 1

\* C14: when the string is a prefix of exactly two known names of two
\* different books and exactly one of the two books already has a cached
\* abbreviation or an earlier resolution (from whichever tier), guessXRefBBB
\* returns the other book and caches that resolution.
C14_EliminationReturnsTheOtherBook ==
    [][(GuessStep /\ TwoNamesOneKnown(lastCall'.arg))
         => (/\ ~lastCall'.raised
             /\ lastCall'.result \in PrefixedBooks(lastCall'.arg)
             /\ ~AlreadyKnown(lastCall'.result)
             /\ Lower(lastCall'.arg) \in DOMAIN bookAbbrevDict'
             /\ bookAbbrevDict'[Lower(lastCall'.arg)] = lastCall'.result)]_vars

\* the book objects with that code that saveBook has received, in the order
\* of the calls
SavedObjects(code) ==
    { i \in 1..Len(bookObjects) :
        /\ i <= Len(savedLines)
        /\ savedLines[i].saved
        /\ bookObjects[i].BBB = code }

LastOf(S) == CHOOSE i \in S : \A j \in S : j <= i

\* C15: after any sequence of saveBook calls the registry holds exactly one
\* book per saved code, the one saved last, and no book under any other code;
\* saving a code that is already present completes without raising.
C15_OneBookPerCodeTheLastSaved ==
    /\ \A code \in BookCodes :
          IF SavedObjects(code) = {}
          THEN books[code] = 0 /\ code \notin Range(bookOrder)
          ELSE /\ books[code] = LastOf(SavedObjects(code))
               /\ Cardinality({ i \in 1..Len(bookOrder) : bookOrder[i] = code }) = 1
    /\ lastCall.op = "saveBook" => ~lastCall.raised

\* a code has just been saved for the second time
C15_Witness ==
    /\ lastCall.op = "saveBook"
    /\ Cardinality(SavedObjects(lastCall.arg)) >= 2
    /\ books[lastCall.arg] = Len(bookObjects)

(***************************************************************************)
(* InternalBible: the reports over the loaded books (getErrors,            *)
(* getVersification, getAddedUnits, discover) and reloadBook               *)
(***************************************************************************)
\* the categories getErrors sets up, in their order: lists, then groups
ListCategories ==
    << "Priority Errors", "Load Errors", "Fix Text Errors", "Validation Errors",
       "Versification Errors" >>
GroupCategories ==
    << "SFMs", "Characters", "Words", "Headings", "Introduction", "Notes",
       "Controls" >>

\* what a book's own methods report: getErrors(), getVersification(),
\* getAddedUnits() and _discover()
PlainFacts ==
    [errors |-> Put(EmptyDict, "Load Errors", << "e1" >>),
     versification |-> << << 1, 2 >> >>, omittedVerses |-> << >>,
     combinedVerses |-> << >>, reorderedVerses |-> << >>,
     paragraphReferences |-> << >>, qReferences |-> << >>,
     sectionHeadings |-> << >>, sectionReferences |-> << >>,
     wordsOfJesus |-> << >>, verseCount |-> 2]
RichFacts ==
    [errors |-> Put(Put(Put(EmptyDict, "Load Errors", << "e2", "e3" >>),
                        "Priority Errors", << "p1" >>),
                    "SFMs", Put(EmptyDict, "Newline Marker Errors", << "m1" >>)),
     versification |-> << << 1, 4 >> >>, omittedVerses |-> << << 1, 3 >> >>,
     combinedVerses |-> << >>, reorderedVerses |-> << >>,
     paragraphReferences |-> << << 1, 1 >> >>, qReferences |-> << >>,
     sectionHeadings |-> << << 1, 1 >> >>, sectionReferences |-> << >>,
     wordsOfJesus |-> << >>, verseCount |-> 3]
QuietFacts ==
    [errors |-> Put(EmptyDict, "Load Errors", << >>),
     versification |-> << << 1, 1 >> >>, omittedVerses |-> << >>,
     combinedVerses |-> << >>, reorderedVerses |-> << >>,
     paragraphReferences |-> << >>, qReferences |-> << >>,
     sectionHeadings |-> << >>, sectionReferences |-> << >>,
     wordsOfJesus |-> << >>, verseCount |-> 1]
BookFacts == { PlainFacts, RichFacts, QuietFacts }

\* self.books[BBB], for a code of self.books
BookOf(code) == bookFacts[books[code]]

\* list.extend on d[k], d[k] being made first where it is missing
extendIn(d, k, list) ==
    Put(d, k, (IF k \in DOMAIN d THEN d[k] ELSE << >>) \o list)

\* the same one level down: d[k][sub].extend( list )
extendIn2(d, k, sub, list) ==
    Put(d, k, extendIn(IF k \in DOMAIN d THEN d[k] ELSE EmptyDict, sub, list))

\* thisKey.endswith('Errors'), on the keys of the model
IsListKey(k) == k \in Range(ListCategories)

\* getErrors, the first loop, for one key of one book: empty lists under the
\* key in 'All Books' and in 'ByCategory'
RECURSIVE setUpSubKeys(_, _, _)
setUpSubKeys(acc, k, subs) ==
    IF subs = {} THEN acc
    ELSE LET sub == CHOOSE x \in subs : TRUE
         IN  setUpSubKeys(
                [acc EXCEPT !.all = Put(@, k, Put(IF k \in DOMAIN @ THEN @[k] ELSE EmptyDict,
                                                  sub, << >>)),
                            !.cat = Put(@, k, Put(@[k], sub, << >>))],
                k, subs \ { sub })

RECURSIVE setUpKeys(_, _, _)
setUpKeys(acc, errs, keys) ==
    IF keys = {} THEN acc
    ELSE LET k == CHOOSE x \in keys : TRUE
             acc1 == IF IsListKey(k)
                     THEN [acc EXCEPT !.all = Put(@, k, << >>), !.cat = Put(@, k, << >>)]
                     ELSE setUpSubKeys(acc, k, DOMAIN errs[k])
         IN  setUpKeys(acc1, errs, keys \ { k })

\* getErrors, the second loop, for one key of one book
RECURSIVE combineSubKeys(_, _, _, _)
combineSubKeys(acc, errs, k, subs) ==
    IF subs = {} THEN acc
    ELSE LET sub == CHOOSE x \in subs : TRUE
         IN  combineSubKeys(
                [acc EXCEPT !.all = extendIn2(@, k, sub, errs[k][sub]),
                            !.cat = extendIn2(@, k, sub, errs[k][sub])],
                errs, k, subs \ { sub })

RECURSIVE combineKeys(_, _, _)
combineKeys(acc, errs, keys) ==
    IF keys = {} THEN acc
    ELSE LET k == CHOOSE x \in keys : TRUE
             acc1 == IF IsListKey(k)
                     THEN [acc EXCEPT !.all = extendIn(@, k, errs[k]),     \* appendList
                                      !.cat = extendIn(@, k, errs[k])]
                     ELSE combineSubKeys(acc, errs, k, DOMAIN errs[k])
         IN  combineKeys(acc1, errs, keys \ { k })

\* the two loops over self.books.keys()
RECURSIVE setUpBooks(_, _)
setUpBooks(acc, order) ==
    IF order = << >> THEN acc
    ELSE setUpBooks(setUpKeys(acc, BookOf(Head(order)).errors,
                              DOMAIN BookOf(Head(order)).errors),
                    Tail(order))

RECURSIVE combineBooks(_, _)
combineBooks(acc, order) ==
    IF order = << >> THEN acc
    ELSE combineBooks(combineKeys(acc, BookOf(Head(order)).errors,
                                  DOMAIN BookOf(Head(order)).errors),
                      Tail(order))

\* errors['ByBook']['All Books'] (all) and errors['ByCategory'] (cat) before
\* the empty categories are removed
combinedErrors ==
    LET cats == ListCategories \o GroupCategories
        start == [all |-> EmptyDict,
                  cat |-> [c \in Range(cats) |-> << >>]]
    IN  combineBooks(setUpBooks(start, bookOrder), bookOrder)

\* "Remove any unnecessary empty categories": the loop deletes from the
\* OrderedDict it iterates over.  deletionTolerated tells what the
\* OrderedDict of the build does with that: the iteration goes on (the
\* Python implementation of Python 3.4 and before), or the next step of
\* the iteration raises RuntimeError (the C implementation).
removeEmptyCategories(cat, deletionTolerated) ==
    LET cats == ListCategories \o GroupCategories
        empties == { i \in 1..Len(cats) : cat[cats[i]] = << >> }
        first == CHOOSE i \in empties : \A j \in empties : i <= j
        without(S) == SelectSeq(cats, LAMBDA c : c \notin S)
    IN  IF empties = {}
        THEN [raised |-> FALSE, keys |-> cats, of |-> cat]
        ELSE IF deletionTolerated
        THEN [raised |-> FALSE,
              keys |-> without({ cats[i] : i \in empties }),
              of |-> [c \in Range(without({ cats[i] : i \in empties })) |-> cat[c]]]
        ELSE IF first = Len(cats)
        THEN [raised |-> FALSE,
              keys |-> without({ cats[first] }),
              of |-> [c \in Range(without({ cats[first] })) |-> cat[c]]]
        ELSE [raised |-> TRUE, keys |-> << >>, of |-> EmptyDict]

\* getErrors(): what it returns, or that it raised
getErrors(deletionTolerated) ==
    LET e == combinedErrors
        byCategory == removeEmptyCategories(e.cat, deletionTolerated)
    IN  [raised |-> byCategory.raised,
         allBooks |-> IF byCategory.raised THEN EmptyDict ELSE e.all,
         categories |-> byCategory.keys,
         byCategory |-> byCategory.of]

\* a returned feature: a mapping from book codes, or None
Mapping(d) == [none |-> FALSE, of |-> d]
NoFeature == [none |-> TRUE, of |-> EmptyDict]

\* the entries book by book: one for every book, or only "if there are some"
\* (feature: the name of what the book's method returns)
forEveryBook(feature) == [code \in Range(bookOrder) |-> BookOf(code)[feature]]
forBooksThatHaveSome(feature) ==
    [code \in { c \in Range(bookOrder) : BookOf(c)[feature] # << >> } |->
        BookOf(code)[feature]]

\* getVersification(): four ordered dictionaries
getVersification ==
    [totalVersification |-> Mapping(forEveryBook("versification")),
     totalOmittedVerses |-> Mapping(forBooksThatHaveSome("omittedVerses")),
     totalCombinedVerses |-> Mapping(forBooksThatHaveSome("combinedVerses")),
     totalReorderedVerses |-> Mapping(forBooksThatHaveSome("reorderedVerses"))]

\* getAddedUnits(): "If a version lacks a feature completely, return None"
allOrNone(feature) ==
    IF \E code \in Range(bookOrder) : BookOf(code)[feature] # << >>
    THEN Mapping(forEveryBook(feature))
    ELSE NoFeature

getAddedUnits ==
    [AllParagraphs |-> allOrNone("paragraphReferences"),
     AllQParagraphs |-> allOrNone("qReferences"),
     AllSectionHeadings |-> allOrNone("sectionHeadings"),
     AllSectionReferences |-> allOrNone("sectionReferences"),
     AllWordsOfJesus |-> allOrNone("wordsOfJesus")]

\* BibleBooksCodes.isOldTestament_NR, isNewTestament_NR, isDeuterocanon_NR
Testament(key) ==
    IF key \in { "GEN", "EXO", "JDG" } THEN "OT"
    ELSE IF key = "JUD" THEN "NT"
    ELSE "Other"

\* the results of one key of self.discoveryResults: the numbers and the lists
\* (a key is the sequence of the parts of its name: 'OT'+key is << "OT" >> \o key)
NoResults == [counts |-> EmptyDict, codes |-> EmptyDict]

\* book._discover( discoveryResults ): the book's entry, under its code
bookDiscover(dr, code, book) ==
    [dr EXCEPT !.order = IF code \in Range(@) THEN @ ELSE Append(@, code),
               !.of = Put(@, code,
                          [counts |-> Put(EmptyDict, << "verseCount" >>,
                                          book.verseCount),
                           codes |-> EmptyDict])]

\* aggregateResults[key] = value, or += value
addTo(d, k, v) == Put(d, k, (IF k \in DOMAIN d THEN d[k] ELSE 0) + v)

\* the loop over the items of one entry: the branch of the int values
RECURSIVE aggregateItems(_, _, _, _)
aggregateItems(counts, items, keys, prefix) ==
    IF keys = {} THEN counts
    ELSE LET key == CHOOSE x \in keys : TRUE
         IN  aggregateItems(
                addTo(addTo(counts, key, items[key]), << prefix >> \o key, items[key]),
                items, keys \ { key }, prefix)

\* the loop "for BBB in self.discoveryResults", over every key that is there
RECURSIVE aggregateEntries(_, _, _)
aggregateEntries(agg, dr, order) ==
    IF order = << >> THEN agg
    ELSE LET key == Head(order)
             t == Testament(key)
             agg1 == [counts |-> addTo(agg.counts, << t, "BookCount" >>, 1),
                      codes |-> extendIn(agg.codes, << t, "BookCodes" >>, << key >>)]
             agg2 == [agg1 EXCEPT !.counts =
                         aggregateItems(@, dr.of[key].counts, DOMAIN dr.of[key].counts,
                                        IF t = "Other" THEN "OTHER" ELSE t)]
         IN  aggregateEntries(agg2, dr, Tail(order))

\* _aggregateDiscoveryResults(): self.discoveryResults['ALL'] = aggregateResults
aggregateDiscoveryResults(dr) ==
    [dr EXCEPT !.order = IF "ALL" \in Range(@) THEN @ ELSE Append(@, "ALL"),
               !.of = Put(@, "ALL", aggregateEntries(NoResults, dr, dr.order))]

\* discover(): a new self.discoveryResults, every book, then the aggregate
RECURSIVE discoverBooks(_, _)
discoverBooks(dr, order) ==
    IF order = << >> THEN dr
    ELSE discoverBooks(bookDiscover(dr, Head(order), BookOf(Head(order))), Tail(order))

discover ==
    aggregateDiscoveryResults(
        discoverBooks([present |-> TRUE, order |-> << >>, of |-> EmptyDict], bookOrder))

\* what loadBook and reloadBook read and write, as one record
LoadLocals ==
    [objs |-> bookObjects, books |-> books, saved |-> savedLines,
     reg |-> Registry, tried |-> triedLoadingBook, facts |-> bookFacts,
     dr |-> discoveryResults]

\* the header of the book file of a code
HeaderOf(code) == IF code = "JUD" THEN Jude ELSE Gen

\* USXXMLBible.loadBook( BBB ): nothing for a book that is loaded or was
\* tried; else the book is read from its file (fileFacts) and saved
loadBook(st, code, fileFacts) ==
    IF st.books[code] # 0 THEN st                  \* "Already loaded"
    ELSE IF code \in st.tried THEN st
    ELSE LET idx == Len(st.objs) + 1
             objs1 == addLine(BibleBook(st.objs, code), idx, "h", HeaderOf(code))
         IN  [st EXCEPT !.tried = @ \cup { code },
                        !.objs = objs1,
                        !.facts = Put(@, idx, fileFacts),
                        !.books = saveBook(@, objs1, idx),
                        !.saved = recordSaved(@, objs1, idx),
                        !.reg = saveBookNames(@, objs1[idx])]

\* InternalBible.reloadBook( BBB )
reloadBook(st, code, fileFacts) ==
    LET st1 == [loadBook(st, code, fileFacts) EXCEPT !.tried = @ \cup { code }]
    IN  IF st1.dr.present
        THEN [st1 EXCEPT !.dr = aggregateDiscoveryResults(
                                   bookDiscover(@, code, st1.facts[st1.books[code]]))]
        ELSE st1

\* the state after loadBook or reloadBook
Loaded(st) ==
    /\ bookObjects' = st.objs
    /\ books' = st.books
    /\ savedLines' = st.saved
    /\ bookOrder' = st.reg.order
    /\ BBBToNameDict' = st.reg.toName
    /\ bookNameDict' = st.reg.names
    /\ combinedBookNameDict' = st.reg.combined
    /\ triedLoadingBook' = st.tried
    /\ bookFacts' = st.facts
    /\ discoveryResults' = st.dr
    /\ UNCHANGED << thisBook, BBB, mainDivType, chapterMilestone, verseMilestone,
                    haveEIDs, loadErrors, element, elementCount, path, newBBB,
                    osisPc >>
    /\ UNCHANGED << usfmVars, usfxVars, guessVars >>

LoadBook(code, fileFacts, max) ==
    /\ callCount < max
    /\ callCount' = callCount + 1
    /\ Loaded(loadBook(LoadLocals, code, fileFacts))
    /\ UNCHANGED lazyVars
    /\ lastReport' = [op |-> "loadBook", arg |-> code, raised |-> FALSE,
                      value |-> books[code]]

\* value: the book object that was resident under the code before the call
ReloadBook(code, fileFacts, max) ==
    /\ callCount < max
    /\ callCount' = callCount + 1
    /\ Loaded(reloadBook(LoadLocals, code, fileFacts))
    /\ UNCHANGED lazyVars
    /\ lastReport' = [op |-> "reloadBook", arg |-> code, raised |-> FALSE,
                      value |-> books[code]]

Discover(max) ==
    /\ callCount < max
    /\ callCount' = callCount + 1
    /\ discoveryResults' = discover
    /\ lastReport' = [op |-> "discover", arg |-> "", raised |-> FALSE, value |-> 0]
    /\ UNCHANGED << usfmVars, lazyVars, usfxVars, osisVars, nameVars, guessVars, triedLoadingBook,
                    bookFacts >>

\* a report: nothing changes but the record of the call
Reported(op, raised, value) ==
    /\ callCount' = callCount + 1
    /\ lastReport' = [op |-> op, arg |-> "", raised |-> raised, value |-> value]
    /\ UNCHANGED << usfmVars, lazyVars, usfxVars, osisVars, nameVars, guessVars, triedLoadingBook,
                    bookFacts, discoveryResults >>

GetErrors(deletionTolerated, max) ==
    /\ callCount < max
    /\ Reported("getErrors", getErrors(deletionTolerated).raised,
                getErrors(deletionTolerated))

GetVersification(max) ==
    /\ callCount < max
    /\ Reported("getVersification", FALSE, getVersification)

GetAddedUnits(max) ==
    /\ callCount < max
    /\ Reported("getAddedUnits", FALSE, getAddedUnits)

LoadedCodes == { "GEN", "JUD" }

NextReports ==
    \/ \E code \in LoadedCodes, f \in BookFacts : LoadBook(code, f, MaxCalls)
    \/ \E code \in LoadedCodes, f \in BookFacts : ReloadBook(code, f, MaxCalls)
    \/ Discover(MaxCalls)
    \/ \E tolerated \in BOOLEAN : GetErrors(tolerated, MaxCalls)
    \/ GetVersification(MaxCalls)
    \/ GetAddedUnits(MaxCalls)

SpecReports == Init /\ [][NextReports]_vars

(***************************************************************************)
(* Claims about the reports and about reloadBook                           *)
(***************************************************************************)
\* the books' 'Load Errors' lists, one after the other
RECURSIVE LoadErrorsOf(_)
LoadErrorsOf(order) ==
    IF order = << >> THEN << >>
    ELSE BookOf(Head(order)).errors["Load Errors"] \o LoadErrorsOf(Tail(order))

\* C16: for N books that each contribute a 'Load Errors' list, getErrors
\* returns an 'All Books' 'Load Errors' list that is the concatenation of the
\* books' lists in the order the books were inserted.
C16_AllBooksLoadErrorsConcatenated ==
    (/\ lastReport.op = "getErrors"
     /\ bookOrder # << >>
     /\ \A code \in Range(bookOrder) : "Load Errors" \in DOMAIN BookOf(code).errors)
      => (/\ ~lastReport.raised
          /\ "Load Errors" \in DOMAIN lastReport.value.allBooks
          /\ lastReport.value.allBooks["Load Errors"] = LoadErrorsOf(bookOrder))

\* no book has an entry in a list of the category
EmptyForEveryBook(category) ==
    \A code \in Range(bookOrder) :
        LET errs == BookOf(code).errors
        IN  \/ category \notin DOMAIN errs
            \/ IF IsListKey(category) THEN errs[category] = << >>
               ELSE \A sub \in DOMAIN errs[category] : errs[category][sub] = << >>

\* C17: getErrors returns a by-category view that holds no category that is
\* empty for every book.
C17_NoEmptyCategoryReturned ==
    lastReport.op = "getErrors"
      => (/\ ~lastReport.raised
          /\ \A category \in Range(lastReport.value.categories) :
                ~EmptyForEveryBook(category))

\* no loaded book has the feature
NoBookHas(feature) == \A code \in Range(bookOrder) : BookOf(code)[feature] = << >>

\* C18: in getVersification and in getAddedUnits, a feature that no loaded
\* book has is returned as None, never as an empty mapping.
C18_AbsentFeatureIsNone ==
    /\ lastReport.op = "getVersification"
         => (/\ NoBookHas("omittedVerses")
                  => lastReport.value.totalOmittedVerses.none
             /\ NoBookHas("combinedVerses")
                  => lastReport.value.totalCombinedVerses.none
             /\ NoBookHas("reorderedVerses")
                  => lastReport.value.totalReorderedVerses.none)
    /\ lastReport.op = "getAddedUnits"
         => (/\ NoBookHas("paragraphReferences")
                  => lastReport.value.AllParagraphs.none
             /\ NoBookHas("qReferences")
                  => lastReport.value.AllQParagraphs.none
             /\ NoBookHas("sectionHeadings")
                  => lastReport.value.AllSectionHeadings.none
             /\ NoBookHas("sectionReferences")
                  => lastReport.value.AllSectionReferences.none
             /\ NoBookHas("wordsOfJesus")
                  => lastReport.value.AllWordsOfJesus.none)

\* C19: reloadBook( code ) on a book that is resident discards it and
\* registers a newly loaded book under the code, also for a Bible whose
\* loadBook keeps track of the loads it has tried.
C19_ReloadRegistersAFreshBook ==
    (lastReport.op = "reloadBook" /\ lastReport.value # 0)
      => (/\ books[lastReport.arg] # lastReport.value
          /\ books[lastReport.arg] = Len(bookObjects))

\* C20: after reloadBook on a Bible that has discovery results, the aggregate
\* is computed from the results of the books alone: it is what discover()
\* gives on the books as they are now, and the earlier aggregate is not
\* counted as a book.
C20_AggregateFromBooksAlone ==
    (lastReport.op = "reloadBook" /\ discoveryResults.present)
      => (/\ discoveryResults.of["ALL"] = discover.of["ALL"]
          /\ << "Other", "BookCount" >> \notin DOMAIN discoveryResults.of["ALL"].counts)

(***************************************************************************)
(* Further claims about the registry                                       *)
(***************************************************************************)
\* no lookup answers the string, and all the names it is a prefix of are
\* names of one book
AllPrefixedNamesOfOneBook(referenceString) ==
    /\ getBBB(referenceString) = NoBook
    /\ Lower(referenceString) \notin DOMAIN combinedBookNameDict
    /\ Lower(referenceString) \notin DOMAIN bookAbbrevDict
    /\ Cardinality(PrefixedBooks(referenceString)) = 1

\* C29: if all the known book names that the string is a prefix of belong to
\* one and the same book, guessXRefBBB resolves the string to that book,
\* however many names of that book match.
C29_OneBookManyNamesResolves ==
    [][(GuessStep /\ AllPrefixedNamesOfOneBook(lastCall'.arg))
         => (/\ ~lastCall'.raised
             /\ lastCall'.result \in PrefixedBooks(lastCall'.arg))]_vars

(***************************************************************************)
(* Further claims about the OSIS loader                                    *)
(***************************************************************************)
\* the last step processed a title element with text, without an exception
TitleStep ==
    /\ elementCount' = elementCount + 1
    /\ element'.tag = "title"
    /\ Truthy(clean(element'.text))
    /\ osisPc' # "raised"

\* the marker the stated order gives a title
StatedTitleMarker(e) ==
    IF e.canonical = "true" /\ e.type = "psalm" THEN "d"
    ELSE IF e.type = "parallel" THEN "sr"
    ELSE IF Truthy(chapterMilestone) THEN "s"
    ELSE "imt"

\* C21: a title is classified in the stated order whatever the cursor state:
\* a canonical psalm title becomes a psalm ascription ('d') and a title of
\* type parallel a parallel-reference heading ('sr') whether or not a chapter
\* is open; only a title that is neither is classified by the chapter state
\* (section heading 's' in a chapter, introduction title 'imt' before).
C21_TitleClassifiedInStatedOrder ==
    [][TitleStep
         => bookObjects' = addLine(bookObjects, thisBook,
                                   StatedTitleMarker(element'), clean(element'.text))]_vars

\* a start milestone: no sub-elements, osisID and sID but no eID
IsStartMilestone(e) ==
    ~e.hasChildren /\ Truthy(e.osisID) /\ Truthy(e.sID) /\ ~Truthy(e.eID)

\* an end milestone: no sub-elements, eID but neither osisID nor sID
IsEndMilestone(e) ==
    ~e.hasChildren /\ Truthy(e.eID) /\ ~Truthy(e.osisID) /\ ~Truthy(e.sID)

\* the last step processed a verse element
VerseStep == elementCount' = elementCount + 1 /\ element'.tag = "verse"

\* C25: after a chapter start milestone has been processed (without an
\* exception) the chapter cursor is open on that chapter, also when the
\* milestone begins a new book and the previous book is saved.
C25_ChapterStartOpensTheCursor ==
    [][(ChapterStep /\ IsStartMilestone(element') /\ osisPc' # "raised")
         => chapterMilestone' = element'.sID]_vars

\* C26: an end milestone that does not match the open start milestone
\* leaves the cursor on the most recently opened start milestone, for
\* chapters and for verses alike.
C26_MismatchedEndKeepsTheCursor ==
    [][/\ (ChapterStep /\ IsEndMilestone(element') /\ osisPc' # "raised"
             /\ Truthy(chapterMilestone) /\ element'.eID # chapterMilestone)
          => chapterMilestone' = chapterMilestone
       /\ (VerseStep /\ IsEndMilestone(element') /\ osisPc' # "raised"
             /\ Truthy(verseMilestone) /\ element'.eID # verseMilestone)
          => verseMilestone' = verseMilestone]_vars

\* C27: while the loader stays in one book, a chapter cursor that is open
\* stays open: no element makes it empty again before a new book begins.
C27_ChapterCursorStaysOpenInABook ==
    [][(/\ elementCount' = elementCount + 1
        /\ osisPc = "inBookDiv" /\ osisPc' = "inBookDiv"
        /\ thisBook' = thisBook /\ BBB' = BBB
        /\ Truthy(chapterMilestone))
         => Truthy(chapterMilestone')]_vars

\* C28: with start-only verse milestones, a verse that was opened in the
\* open chapter is no longer the open verse cursor once the next chapter
\* start milestone has been processed: if both cursors are open then, the
\* book.chapter prefix of the verse cursor is the chapter cursor.
C28_VerseCursorFollowsTheChapter ==
    [][(/\ ChapterStep /\ IsStartMilestone(element') /\ osisPc' # "raised"
        /\ ~haveEIDs
        /\ Truthy(chapterMilestone) /\ Truthy(verseMilestone)
        /\ FirstTwo(Split(verseMilestone, DOT)) = Split(chapterMilestone, DOT)
        /\ Truthy(chapterMilestone') /\ Truthy(verseMilestone'))
         => FirstTwo(Split(verseMilestone', DOT)) = Split(chapterMilestone', DOT)]_vars

(***************************************************************************)
(* validateHighlight and the left-over branches of the element loops       *)
(***************************************************************************)
HighlightLocals == [objs |-> bookObjects, errs |-> loadErrors, raised |-> FALSE]

\* the USFM character marker of a highlight type; the local stays unbound
\* for any other type
highlightMarker(highlightType) ==
    CASE highlightType = "italic" -> "it"
      [] highlightType = "bold" -> "bd"
      [] highlightType = "emphasis" -> "em"
      [] highlightType = "small-caps" -> "sc"
      [] highlightType = "super" -> "ord"
      [] OTHER -> "unbound"

OpenSigil(mk) == "\\" \o mk \o " "
CloseSigil(mk) == "\\" \o mk \o "*"

\* '{}'.format( s ): None is written as the word None
formatted(s) == IF s = None THEN << "N", "o", "n", "e" >> ELSE s

\* a loader that passes over an element it does not know
unprocessedElementSilently(errs, where) == errs

\* the line appended for an element no branch of a loop recognizes; where
\* names the loop
unprocessedElement(errs, where) ==
    Append(errs, "Unprocessed sub-element (" \o where \o ")")

Hi(type, text, tail, subs) ==
    [tag |-> "hi", type |-> type, text |-> text, tail |-> tail, subs |-> subs]

RECURSIVE validateHighlight(_, _)
RECURSIVE highlightSubelements(_, _, _)
\* the loop over the sub-elements of a highlight, from the i-th on
highlightSubelements(st, subs, i) ==
    IF i > Len(subs) \/ st.raised THEN st
    ELSE highlightSubelements(
            IF subs[i].tag = "hi" THEN validateHighlight(st, subs[i])
            ELSE [st EXCEPT !.errs = unprocessedElement(@, "bdhj")],
            subs, i + 1)

validateHighlight(st, h) ==
    LET mk == highlightMarker(h.type)
        st1 == [st EXCEPT !.objs = appendToLastLine(@, thisBook,
                    << OpenSigil(mk) >> \o formatted(clean(h.text)) \o << CloseSigil(mk) >>)]
        st2 == highlightSubelements(st1, h.subs, 1)
    IN  IF mk = "unbound" THEN Raise(st)
        ELSE IF st2.raised THEN st2
        ELSE IF Truthy(h.tail) /\ StripsToText(h.tail)
        THEN [st2 EXCEPT !.objs = appendToLastLine(@, thisBook, clean(h.tail))]
        ELSE st2

\* a highlight as a child of a paragraph
HighlightElement(h, max) ==
    /\ osisPc = "inBookDiv"
    /\ elementCount < max
    /\ Top = "p"
    /\ LET r == validateHighlight(HighlightLocals, h)
       IN  /\ bookObjects' = IF r.raised THEN bookObjects ELSE r.objs
           /\ loadErrors' = IF r.raised THEN loadErrors ELSE r.errs
           /\ osisPc' = IF r.raised THEN "raised" ELSE osisPc
    /\ element' = h
    /\ elementCount' = elementCount + 1
    /\ UNCHANGED << thisBook, books, savedLines, BBB, mainDivType,
                    chapterMilestone, verseMilestone, haveEIDs, path, newBBB >>
    /\ UNCHANGED << usfmVars, lazyVars, usfxVars, registryVars >>

\* the code of the left-over branch of the loop the cursor is in
leftOverBranch ==
    CASE Top = "bookDiv" -> "5ks1"
      [] Top = "div" -> "3f67"
      [] Top = "p" -> "3kj6"

\* an element that no branch of the enclosing loop recognizes
UnrecognizedElement(tag, max) ==
    /\ osisPc = "inBookDiv"
    /\ elementCount < max
    /\ loadErrors' = unprocessedElement(loadErrors, leftOverBranch)
    /\ element' = Elem(tag, None, None, None, FALSE, None, None, "", "")
    /\ elementCount' = elementCount + 1
    /\ UNCHANGED << bookObjects, thisBook, books, savedLines, BBB, mainDivType,
                    chapterMilestone, verseMilestone, haveEIDs, path, newBBB,
                    osisPc >>
    /\ UNCHANGED << usfmVars, lazyVars, usfxVars, registryVars >>

MaxInlineElements == 5    \* elements per document, SpecInline

Highlights ==
    { Hi("bold", << "b" >>, None, << >>),
      Hi("italic", << "i" >>, << "t" >>, << >>),
      Hi("bold", None, << "t" >>, << Hi("italic", << "i" >>, None, << >>) >>),
      Hi("bold", << "b" >>, None, << Hi("italic", << "i" >>, << "u" >>, << >>) >>),
      Hi("bold", << "b" >>, None,
         << Elem("seg", None, None, None, FALSE, None, None, "", "") >>),
      Hi("x-large", << "b" >>, None, << >>) }

UnrecognizedTags == { "figure", "milestone" }

\* documents of one book with a chapter, section divs, paragraphs, and in
\* them highlights and elements the loader does not know
NextInline ==
    \/ BeginBookDiv("book", Gen, MaxInlineElements)
    \/ ChapterElement(ChapterStart(ChapterID(Gen, "1")), MaxInlineElements)
    \/ OpenSectionDiv(MaxInlineElements)
    \/ OpenParagraph(MaxInlineElements)
    \/ \E h \in Highlights : HighlightElement(h, MaxInlineElements)
    \/ \E tag \in UnrecognizedTags : UnrecognizedElement(tag, MaxInlineElements)
    \/ CloseContainer
    \/ EndBookDiv

SpecInline == Init /\ [][NextInline]_vars

\* the last step processed a highlight
HighlightStep == elementCount' = elementCount + 1 /\ element'.tag = "hi"

\* what the last step appended to the last line of the book
Appended ==
    LET old == bookObjects[thisBook].rawLines
        new == bookObjects'[thisBook].rawLines
    IN  SubSeq(new[Len(new)].text, Len(old[Len(old)].text) + 1, Len(new[Len(new)].text))

FirstIndex(seq, x) == CHOOSE i \in 1..Len(seq) : seq[i] = x /\ \A j \in 1..(i - 1) : seq[j] # x

\* C22: for a highlight nested in another the output wraps the inner span
\* in the outer one: the outer open sigil comes first, each text is emitted
\* once, and the outer close sigil comes after the inner open sigil, text
\* and close sigil.
C22_InnerHighlightInsideTheOuter ==
    [][(/\ HighlightStep /\ osisPc' # "raised"
        /\ element'.subs # << >> /\ element'.subs[1].tag = "hi")
         => LET outer == highlightMarker(element'.type)
                inner == highlightMarker(element'.subs[1].type)
            IN  /\ Appended[1] = OpenSigil(outer)
                /\ FirstIndex(Appended, CloseSigil(inner))
                     < FirstIndex(Appended, CloseSigil(outer))]_vars

\* the last step processed an element that no loop recognizes
UnrecognizedStep ==
    elementCount' = elementCount + 1 /\ element'.tag \in UnrecognizedTags

\* the last step processed a highlight whose only sub-element is unknown
UnrecognizedInHighlightStep ==
    /\ HighlightStep /\ osisPc' # "raised"
    /\ Len(element'.subs) = 1 /\ element'.subs[1].tag # "hi"

USFXElem(tag, id, extra) == [tag |-> tag, id |-> id, extra |-> extra]

\* a diagnostic goes to logging, and nowhere else
logged(n, extra) == IF extra THEN n + 1 ELSE n

\* the start of loadBook, up to its loop over the elements
USFXBeginBook(code, extra, max) ==
    /\ usfxPc = "notLoading"
    /\ osisPc = "betweenDivs"
    /\ elementCount < max
    /\ bookObjects' = BibleBook(bookObjects, code)
    /\ thisBook' = Len(bookObjects) + 1
    /\ usfxC' = << "0" >>
    /\ usfxV' = << "0" >>
    /\ usfxLogged' = logged(usfxLogged, extra)                       \* bce3
    /\ usfxPc' = "inBook"
    /\ element' = USFXElem("book", code, extra)
    /\ elementCount' = elementCount + 1
    /\ UNCHANGED << errorDictionary, books, savedLines, BBB, mainDivType,
                    chapterMilestone, verseMilestone, haveEIDs, loadErrors,
                    path, newBBB, osisPc >>
    /\ UNCHANGED << usfmVars, registryVars, lazyVars >>

\* an element of the book: a chapter milestone, the start of a paragraph,
\* or an element no branch knows
USFXBookElement(e, max) ==
    /\ usfxPc = "inBook"
    /\ elementCount < max
    /\ e.tag \in { "c", "p", "sidebar" }
    /\ IF e.tag = "c"
       THEN LET C == IF e.id # None THEN e.id ELSE usfxC
            IN  /\ usfxC' = C
                /\ usfxV' = IF e.id # None THEN << "0" >> ELSE usfxV
                /\ usfxLogged' = logged(usfxLogged, e.extra)         \* hj52
                /\ bookObjects' = addLine(bookObjects, thisBook, "c", C)
                /\ UNCHANGED usfxPc
       ELSE IF e.tag = "p"
       THEN /\ usfxV' = None
            /\ usfxLogged' = logged(usfxLogged, e.extra)             \* vfh4
            /\ bookObjects' = addLine(bookObjects, thisBook, "p", << >>)
            /\ usfxPc' = "inParagraph"
            /\ UNCHANGED usfxC
       ELSE /\ usfxLogged' = usfxLogged + 1                          \* caf2
            /\ UNCHANGED << usfxC, usfxV, bookObjects, usfxPc >>
    /\ element' = e
    /\ elementCount' = elementCount + 1
    /\ UNCHANGED << errorDictionary, thisBook, books, savedLines, BBB,
                    mainDivType, chapterMilestone, verseMilestone, haveEIDs,
                    loadErrors, path, newBBB, osisPc >>
    /\ UNCHANGED << usfmVars, registryVars, lazyVars >>

\* an element of a paragraph: a verse milestone, a verse end milestone, or
\* an element no branch knows
USFXParagraphElement(e, max) ==
    /\ usfxPc = "inParagraph"
    /\ elementCount < max
    /\ e.tag \in { "v", "ve", "sidebar" }
    /\ IF e.tag = "v"
       THEN /\ usfxLogged' = logged(usfxLogged, e.extra)             \* cbs2
            /\ usfxV' = e.id
            /\ IF e.id = None                      \* assert( V is not None )
               THEN usfxPc' = "raised" /\ UNCHANGED bookObjects
               ELSE /\ bookObjects' = addLine(bookObjects, thisBook, "v", e.id)
                    /\ UNCHANGED usfxPc
       ELSE IF e.tag = "ve"
       THEN UNCHANGED << usfxLogged, usfxV, bookObjects, usfxPc >>
       ELSE /\ usfxLogged' = usfxLogged + 1                          \* df45
            /\ UNCHANGED << usfxV, bookObjects, usfxPc >>
    /\ element' = e
    /\ elementCount' = elementCount + 1
    /\ UNCHANGED << usfxC, errorDictionary, thisBook, books, savedLines, BBB,
                    mainDivType, chapterMilestone, verseMilestone, haveEIDs,
                    loadErrors, path, newBBB, osisPc >>
    /\ UNCHANGED << usfmVars, registryVars, lazyVars >>

\* loadParagraph returns V to loadBook
USFXEndParagraph ==
    /\ usfxPc = "inParagraph"
    /\ usfxPc' = "inBook"
    /\ UNCHANGED << usfxC, usfxV, usfxLogged, errorDictionary >>
    /\ UNCHANGED << usfmVars, osisVars, registryVars, lazyVars >>

\* the end of loadBook: self.saveBook( self.thisBook )
USFXEndBook ==
    /\ usfxPc = "inBook"
    /\ usfxPc' = "notLoading"
    /\ books' = saveBook(books, bookObjects, thisBook)
    /\ savedLines' = recordSaved(savedLines, bookObjects, thisBook)
    /\ LET reg == saveBookNames(Registry, bookObjects[thisBook])
       IN  /\ bookOrder' = reg.order
           /\ BBBToNameDict' = reg.toName
           /\ bookNameDict' = reg.names
           /\ combinedBookNameDict' = reg.combined
    /\ UNCHANGED << bookObjects, thisBook, BBB, mainDivType, chapterMilestone,
                    verseMilestone, haveEIDs, loadErrors, element,
                    elementCount, path, newBBB, osisPc >>
    /\ UNCHANGED << usfxC, usfxV, usfxLogged, errorDictionary >>
    /\ UNCHANGED << usfmVars, callCount, guessVars, reportVars, lazyVars >>

MaxUSFXElements == 4      \* elements per document, SpecUSFX

USFXBookElements ==
    { USFXElem("c", << "1" >>, FALSE), USFXElem("c", << "2" >>, TRUE),
      USFXElem("c", None, FALSE),
      USFXElem("p", None, FALSE), USFXElem("p", None, TRUE),
      USFXElem("sidebar", None, FALSE) }

USFXParagraphElements ==
    { USFXElem("v", << "1" >>, FALSE), USFXElem("v", << "2" >>, TRUE),
      USFXElem("v", None, FALSE),
      USFXElem("ve", None, FALSE),
      USFXElem("sidebar", None, FALSE) }

NextUSFX ==
    \/ \E code \in { "GEN", "EXO" }, extra \in BOOLEAN :
          USFXBeginBook(code, extra, MaxUSFXElements)
    \/ \E e \in USFXBookElements : USFXBookElement(e, MaxUSFXElements)
    \/ \E e \in USFXParagraphElements : USFXParagraphElement(e, MaxUSFXElements)
    \/ USFXEndParagraph
    \/ USFXEndBook

SpecUSFX == Init /\ [][NextUSFX]_vars

\* the load-error list of an error dictionary
LoadErrorsIn(dict) ==
    IF "Load Errors" \in DOMAIN dict THEN dict["Load Errors"] ELSE << >>

\* the last step met an element or an attribute the USFX loader does not know
USFXUnrecognizedStep ==
    /\ elementCount' = elementCount + 1
    /\ usfxPc' \in { "inBook", "inParagraph" }
    /\ element'.extra \/ element'.tag = "sidebar"

\* C24: every unrecognized element or attribute the USFX loader meets adds
\* a diagnostic to the load-error list of the Bible's error dictionary.
C24_USFXDiagnosticsReachTheErrorDictionary ==
    [][USFXUnrecognizedStep
         => Len(LoadErrorsIn(errorDictionary')) = Len(LoadErrorsIn(errorDictionary)) + 1]_vars

(***************************************************************************)
(* InternalBible.loadBookIfNecessary and the lookups that call it          *)
(***************************************************************************)
LazyLocals == [load |-> LoadLocals, calls |-> loadBookCalls, raised |-> FALSE]

\* what a call of self.loadBook( BBB ) can come to:
\*   "loaded"            USXXMLBible.loadBook reads the book and saves it
\*   "KeyError"          possibleFilenameDict has no file for the code
\*   "FileNotFoundError" the file of the book cannot be opened
\*   "AttributeError"    the Bible has no loadBook method
LoadOutcomes == { "loaded", "KeyError", "FileNotFoundError", "AttributeError" }

\* self.loadBook( BBB ), for a code that is neither loaded nor tried
tryLoadBook(load, code, fileFacts, outcome) ==
    IF outcome = "loaded" THEN loadBook(load, code, fileFacts)
    ELSE IF outcome = "AttributeError" THEN load
    ELSE [load EXCEPT !.tried = @ \cup { code }]

\* the call of loadBook and what follows it in loadBookIfNecessary
callLoadBook(st, code, fileFacts, outcome) ==
    LET load == tryLoadBook(st.load, code, fileFacts, outcome)
    IN  [load |-> IF outcome = "KeyError" THEN load
                  ELSE [load EXCEPT !.tried = @ \cup { code }],
         calls |-> [st.calls EXCEPT ![code] = @ + 1],
         raised |-> outcome = "KeyError"]

\* a lookup that calls loadBook every time
loadBookWhetherNecessaryOrNot(st, code, fileFacts, outcome) ==
    callLoadBook(st, code, fileFacts, outcome)

\* loadBook is called for a code that is neither resident nor tried
loadBookIfNecessary(st, code, fileFacts, outcome) ==
    IF st.load.books[code] = 0 /\ code \notin st.load.tried
    THEN callLoadBook(st, code, fileFacts, outcome)
    ELSE st

LookupMethods == { "getNumChapters", "getNumVerses", "getContextVerseData" }

\* getNumChapters, getNumVerses, getContextVerseData: the book is loaded if
\* necessary, and the question goes to the book object if there is one
\* (value: that object, 0 when the method returns None)
Lookup(method, code, fileFacts, outcome, max) ==
    /\ callCount < max
    /\ callCount' = callCount + 1
    /\ LET r == loadBookIfNecessary(LazyLocals, code, fileFacts, outcome)
       IN  /\ Loaded(r.load)
           /\ loadBookCalls' = r.calls
           /\ lastReport' = [op |-> method, arg |-> code, raised |-> r.raised,
                             value |-> IF r.raised THEN 0 ELSE r.load.books[code]]

NextLazy ==
    \/ \E method \in LookupMethods, code \in LoadedCodes, outcome \in LoadOutcomes :
          Lookup(method, code, PlainFacts, outcome, MaxCalls)
    \/ \E code \in LoadedCodes : LoadBook(code, PlainFacts, MaxCalls)
    \/ \E code \in LoadedCodes : ReloadBook(code, PlainFacts, MaxCalls)

SpecLazy == Init /\ [][NextLazy]_vars

\* a lookup has just returned (or raised)
LookupStep == callCount' = callCount + 1 /\ lastReport'.op \in LookupMethods

\* C30: over any sequence of lookups loadBookIfNecessary calls loadBook at
\* most once for a book code, and never for a code that is resident or was
\* tried before, whether that load found the book or failed.
C30_LoadBookCalledAtMostOnce ==
    [][LookupStep
         => /\ \A code \in BookCodes : loadBookCalls'[code] <= 1
            /\ (books[lastReport'.arg] # 0 \/ lastReport'.arg \in triedLoadingBook)
                 => loadBookCalls' = loadBookCalls]_vars

\* a lookup of GEN after the only load of GEN failed: no second call
C30_Witness ==
    /\ lastReport.op \in LookupMethods
    /\ lastReport.arg = "GEN"
    /\ callCount >= 2
    /\ books["GEN"] = 0
    /\ triedLoadingBook = { "GEN" }
    /\ loadBookCalls = [b \in BookCodes |-> IF b = "GEN" THEN 1 ELSE 0]

====
